---- MODULE Spec2Model ----
(***************************************************************************)
(* PomoGrow: the credential / session subsystem (utils/auth) and the       *)
(* access-controlled per-user storage (utils/secureStorage).               *)
(*                                                                         *)
(* Time is in milliseconds, as Date.now() gives it.  Strings of the        *)
(* program are TLA+ strings; passwords are sequences of one-character      *)
(* strings so that the password policy is computed character by character. *)
(* An optional field (lockedUntil?: ...) is <<>> when undefined and <<v>>   *)
(* when it holds v.                                                        *)
(***************************************************************************)
EXTENDS Integers, Sequences, FiniteSets, TLC

VARIABLES
    now,            \* the wall clock, what new Date() / Date.now() returns
    users,          \* localStorage['pomogrow_users']: sequence of User
    sessions,       \* localStorage['pomogrow_sessions']: sequence of AuthSession
    securityLogs,   \* localStorage['security_logs']
    alerts,         \* number of sendSecurityAlert calls so far
    dataStore,      \* localStorage['pomogrow_data_<studyId>'], by studyId
    uuids,          \* number of uuidv4() values drawn so far
    ticks,          \* number of clock advances so far
    last,           \* the last call made and what it returned
    hist,           \* history: what the calls so far have done (not read by the program)
    ui,             \* the React state of App and of the mounted screen component
    calls           \* by tab: the async auth call suspended at its await, if any

vars == <<now, users, sessions, securityLogs, alerts, dataStore, uuids, ticks, last, hist, ui, calls>>

---------------------------------------------------------------------------
(* Bounds of the model *)

MaxTicks == 3
MaxUuid == 2
MaxFailed == 4
MaxLog == 1
NumSalts == 1
MaxEntries == 1
MaxPomodoros == 2
MaxCoreLen == 4

(* Program constants *)

MAX_FAILED_ATTEMPTS == 3
LOCK_DURATION == 30 * 60 * 1000
SESSION_DURATION == 24 * 60 * 60 * 1000
RESET_TOKEN_DURATION == 60 * 60 * 1000
MAX_SECURITY_LOGS == 100
MIN_PASSWORD_LENGTH == 8
MIN_NAME_LENGTH == 2

Undefined == <<>>
Some(v) == <<v>>

\* The arguments of a call without arguments, the result of a call without result
Void == [void |-> TRUE]

---------------------------------------------------------------------------
(* Strings *)

\* The strings the model feeds to the program.
EmailA == "a@gmail.com"
EmailB == "b@gmail.com"
EmailAUpper == "A@gmail.com"
EmailOther == "a@yahoo.com"

\* The identifiers generateStudyId can return, and their lower-case forms
GeneratedIds == {"STUDY-" \o ToString(n) : n \in 1..(MaxUuid + 1)}
LowerGeneratedId ==
    [s \in GeneratedIds |->
        "study-" \o ToString(CHOOSE n \in 1..(MaxUuid + 1) : s = "STUDY-" \o ToString(n))]

\* Variant: the string is not lower-cased
toLowerCase_Identity(s) == s

\* String.prototype.toLowerCase on the strings of the model.
toLowerCase(s) ==
    CASE s = "A@gmail.com" -> "a@gmail.com"
      [] s = "Ann" -> "ann"
      [] s = "Bob" -> "bob"
      [] s \in GeneratedIds -> LowerGeneratedId[s]
      [] OTHER -> s

\* String.prototype.trim
trim(s) ==
    CASE s = " Ann " -> "Ann"
      [] s = " " -> ""
      [] OTHER -> s

\* validator.escape: & < > " ' / \ ` become HTML entities
escape(s) ==
    CASE s = "a&b" -> "a&amp;b"
      [] s = "<b>" -> "&lt;b&gt;"
      [] OTHER -> s

\* s.length for the names the model uses
StrLen(s) ==
    CASE s = "" -> 0
      [] s = "A" -> 1
      [] s = "Ann" -> 3
      [] s = "Bob" -> 3
      [] OTHER -> 4

sanitizeInput(input) == escape(trim(input))

\* validator.isEmail(email) && email.endsWith('@gmail.com')
validateEmail(email) == email \in {"a@gmail.com", "b@gmail.com", "A@gmail.com"}

---------------------------------------------------------------------------
(* Passwords *)

UpperChars == {"A", "B", "X"}
LowerChars == {"a", "b", "c", "d", "e", "f", "x", "y", "z", "u", "v", "w"}
DigitChars == {"0", "1", "2"}
SpecialChars == {"!", "@", "#", "$", "%", "^", "&", "*", "(", ")", ",", ".",
                 "?", "\"", ":", "{", "}", "|", "<", ">"}

Pw1 == <<"A", "b", "c", "d", "e", "f", "1", "!">>
Pw2 == <<"X", "y", "z", "u", "v", "w", "2", "?">>
PwWeak == <<"a", "b", "c", "1">>

HasChar(password, class) == \E i \in 1..Len(password) : password[i] \in class

\* Variant: only the first violated rule is reported
validatePasswordErrors_FirstOnly(password) ==
    IF Len(password) < MIN_PASSWORD_LENGTH THEN <<"length">>
    ELSE IF ~HasChar(password, UpperChars) THEN <<"uppercase">>
    ELSE IF ~HasChar(password, LowerChars) THEN <<"lowercase">>
    ELSE IF ~HasChar(password, DigitChars) THEN <<"number">>
    ELSE IF ~HasChar(password, SpecialChars) THEN <<"special">>
    ELSE <<>>

validatePasswordErrors(password) ==
    (IF Len(password) < MIN_PASSWORD_LENGTH THEN <<"length">> ELSE <<>>)
    \o (IF ~HasChar(password, UpperChars) THEN <<"uppercase">> ELSE <<>>)
    \o (IF ~HasChar(password, LowerChars) THEN <<"lowercase">> ELSE <<>>)
    \o (IF ~HasChar(password, DigitChars) THEN <<"number">> ELSE <<>>)
    \o (IF ~HasChar(password, SpecialChars) THEN <<"special">> ELSE <<>>)

validatePassword(password) ==
    [isValid |-> Len(validatePasswordErrors(password)) = 0,
     errors |-> validatePasswordErrors(password)]

\* A call of validatePassword on its own, with the password handed in
ValidatePassword ==
    /\ last.op = "input"
    /\ last' = [op |-> "validatePassword", args |-> last.args,
                result |-> validatePassword(last.args.password)]
    /\ UNCHANGED <<now, users, sessions, securityLogs, alerts, dataStore, uuids, ticks, hist,
                   ui, calls>>

\* bcrypt: the hash carries its salt; the digest depends on salt and password.
Salts == 1..NumSalts
hashPassword(password, salt) == [salt |-> salt, digest |-> <<salt, password>>]
verifyPassword(password, hash) == hash.digest = <<hash.salt, password>>

---------------------------------------------------------------------------
(* Helpers over the stored arrays *)

\* Array.prototype.find: the index of the first element satisfying P, 0 if none
Matching(seq, P(_)) == {i \in 1..Len(seq) : P(seq[i])}
FindIndex(seq, P(_)) ==
    IF Matching(seq, P) = {} THEN 0
    ELSE CHOOSE i \in Matching(seq, P) : \A j \in Matching(seq, P) : i <= j

\* Array.prototype.filter is SelectSeq

uuidv4 == uuids + 1
generateStudyId == "STUDY-" \o ToString(uuidv4)

---------------------------------------------------------------------------
(* utils/auth: security log *)

\* localStorage['security_logs'] holding text that JSON.parse rejects
Unparsable == <<[unparsable |-> TRUE]>>

\* logSecurityEvent parses the stored log with no try/catch around it: the
\* call throws when the stored text is no JSON
logSecurityEventThrows == securityLogs = Unparsable

\* The model records a further security event only below MaxLog events; the
\* re-lock of an account whose counter is past the threshold is bounded by
\* MaxFailed instead
LogHasRoom ==
    IF securityLogs = Unparsable THEN alerts < MaxLog ELSE Len(securityLogs) < MaxLog

\* Variant: at the cap the entry just pushed is the one dropped
logSecurityEvent_EvictsNewest(logs, event, identifier) ==
    LET pushed == Append(logs, [timestamp |-> now, event |-> event, identifier |-> identifier])
    IN  IF Len(pushed) > MAX_SECURITY_LOGS
        THEN SubSeq(pushed, 1, MAX_SECURITY_LOGS)
        ELSE pushed

\* logSecurityEvent(event, identifier): the log after the call
logSecurityEvent(logs, event, identifier) ==
    LET pushed == Append(logs, [timestamp |-> now, event |-> event, identifier |-> identifier])
    IN  IF Len(pushed) > MAX_SECURITY_LOGS
        THEN SubSeq(pushed, Len(pushed) - MAX_SECURITY_LOGS + 1, Len(pushed))
        ELSE pushed

\* A call of logSecurityEvent on its own. The model records at most one
\* event per instant, so that the number of calls is bounded with the clock.
LogSecurityEvent(event, identifier) ==
    /\ ~logSecurityEventThrows
    /\ securityLogs # <<>> => securityLogs[Len(securityLogs)].timestamp < now
    /\ securityLogs' = logSecurityEvent(securityLogs, event, identifier)
    /\ last' = [op |-> "logSecurityEvent",
                args |-> [event |-> event, identifier |-> identifier],
                result |-> Void]
    /\ UNCHANGED <<now, users, sessions, alerts, dataStore, uuids, ticks, hist, ui, calls>>

---------------------------------------------------------------------------
(* utils/auth: registerUser *)

NewUser(studyId, email, passwordHash, preferredName) ==
    [studyId |-> studyId,
     email |-> email,
     passwordHash |-> passwordHash,
     preferredName |-> preferredName,
     createdAt |-> now,
     lastLogin |-> now,
     failedAttempts |-> 0,
     isVerified |-> TRUE,
     lockedUntil |-> Undefined,
     resetToken |-> Undefined,
     resetTokenExpiry |-> Undefined]

\* What registerUser returns; the studyId it would use is generated when no
\* custom one is given.
RegisterStudyId(customStudyId) ==
    IF customStudyId # "" THEN customStudyId ELSE generateStudyId

\* Variant: the identifier is not compared with the stored ones
RegisterResult_NoIdentifierCheck(email, password, preferredName, customStudyId) ==
    LET sanitizedEmail == sanitizeInput(toLowerCase(email))
        sanitizedName == sanitizeInput(preferredName)
        studyId == RegisterStudyId(customStudyId)
    IN  IF ~validateEmail(sanitizedEmail)
            THEN [success |-> FALSE, error |-> "InvalidEmail"]
        ELSE IF ~validatePassword(password).isValid
            THEN [success |-> FALSE, error |-> "WeakPassword",
                  errors |-> validatePassword(password).errors]
        ELSE IF StrLen(sanitizedName) < MIN_NAME_LENGTH
            THEN [success |-> FALSE, error |-> "NameTooShort"]
        ELSE IF FindIndex(users, LAMBDA u : u.email = sanitizedEmail) # 0
            THEN [success |-> FALSE, error |-> "DuplicateEmail"]
        ELSE [success |-> TRUE, studyId |-> studyId]

RegisterResult(email, password, preferredName, customStudyId) ==
    LET sanitizedEmail == sanitizeInput(toLowerCase(email))
        sanitizedName == sanitizeInput(preferredName)
        studyId == RegisterStudyId(customStudyId)
    IN  IF ~validateEmail(sanitizedEmail)
            THEN [success |-> FALSE, error |-> "InvalidEmail"]
        ELSE IF ~validatePassword(password).isValid
            THEN [success |-> FALSE, error |-> "WeakPassword",
                  errors |-> validatePassword(password).errors]
        ELSE IF StrLen(sanitizedName) < MIN_NAME_LENGTH
            THEN [success |-> FALSE, error |-> "NameTooShort"]
        ELSE IF FindIndex(users, LAMBDA u : u.email = sanitizedEmail) # 0
            THEN [success |-> FALSE, error |-> "DuplicateEmail"]
        ELSE IF FindIndex(users, LAMBDA u : u.studyId = studyId) # 0
            THEN [success |-> FALSE, error |-> "DuplicateIdentifier"]
        ELSE [success |-> TRUE, studyId |-> studyId]

\* Whether the call reaches `customStudyId || generateStudyId()`
RegisterDrawsUuid(email, password, preferredName, customStudyId) ==
    /\ customStudyId = ""
    /\ RegisterResult(email, password, preferredName, customStudyId).success
       \/ RegisterResult(email, password, preferredName, customStudyId).error = "DuplicateIdentifier"

RegisterUser(email, password, preferredName, customStudyId, salt) ==
    LET result == RegisterResult(email, password, preferredName, customStudyId)
    IN  /\ RegisterDrawsUuid(email, password, preferredName, customStudyId) => uuids < MaxUuid
        /\ users' = IF result.success
                    THEN Append(users, NewUser(result.studyId,
                                               sanitizeInput(toLowerCase(email)),
                                               hashPassword(password, salt),
                                               sanitizeInput(preferredName)))
                    ELSE users
        /\ uuids' = IF RegisterDrawsUuid(email, password, preferredName, customStudyId)
                    THEN uuids + 1 ELSE uuids
        /\ last' = [op |-> "registerUser",
                    args |-> [email |-> email, password |-> password,
                              preferredName |-> preferredName,
                              customStudyId |-> customStudyId],
                    result |-> result]
        /\ hist' = IF result.success THEN [hist EXCEPT !.streak = Append(@, 0)] ELSE hist
        /\ UNCHANGED <<now, sessions, securityLogs, alerts, dataStore, ticks, ui, calls>>

---------------------------------------------------------------------------
(* utils/auth: sessions *)

\* createSession(user): the session it builds and the store it writes
NewSession(user) ==
    [studyId |-> user.studyId,
     email |-> user.email,
     sessionToken |-> uuidv4,
     expiresAt |-> now + SESSION_DURATION]

\* Variant: the session is issued with an expiry in the past
createSession_AlreadyExpired(store, user) ==
    Append(SelectSeq(store, LAMBDA s : s.studyId # user.studyId),
           [NewSession(user) EXCEPT !.expiresAt = now - 1])

\* Variant: earlier sessions of the user are kept
createSession_KeepsOld(store, user) == Append(store, NewSession(user))

createSession(store, user) ==
    Append(SelectSeq(store, LAMBDA s : s.studyId # user.studyId), NewSession(user))

SessionIndex(sessionToken) ==
    FindIndex(sessions, LAMBDA s : s.sessionToken = sessionToken)

\* Variant: the session is over at expiresAt itself
SessionExpired_AtExpiry(session) == now >= session.expiresAt

SessionExpired(session) == now > session.expiresAt

\* Variant: the session of a locked account does not validate
validateSession_RejectsLocked(sessionToken) ==
    LET i == SessionIndex(sessionToken)
    IN  IF i = 0 \/ SessionExpired(sessions[i]) THEN Undefined
        ELSE LET k == FindIndex(users, LAMBDA u : u.studyId = sessions[i].studyId)
                 locked == /\ users[k].lockedUntil # Undefined
                           /\ now < users[k].lockedUntil[1]
             IN  IF k = 0 \/ locked THEN Undefined ELSE Some(users[k])

\* validateSession(sessionToken): the User it returns (Undefined for null) ...
validateSession(sessionToken) ==
    LET i == SessionIndex(sessionToken)
    IN  IF i = 0 \/ SessionExpired(sessions[i]) THEN Undefined
        ELSE LET k == FindIndex(users, LAMBDA u : u.studyId = sessions[i].studyId)
             IN  IF k = 0 THEN Undefined ELSE Some(users[k])

\* ... and the session store it leaves behind
SessionsAfterValidate(sessionToken) ==
    LET i == SessionIndex(sessionToken)
    IN  IF i # 0 /\ SessionExpired(sessions[i])
        THEN SelectSeq(sessions, LAMBDA s : s.sessionToken # sessionToken)
        ELSE sessions

\* Variant: any live session grants access to any record
hasDataAccess_AnySession(sessionToken, requestedStudyId) ==
    validateSession(sessionToken) # Undefined

hasDataAccess(sessionToken, requestedStudyId) ==
    LET user == validateSession(sessionToken)
    IN  user # Undefined /\ user[1].studyId = requestedStudyId

GetCurrentUser(sessionToken) ==
    /\ sessions' = SessionsAfterValidate(sessionToken)
    /\ last' = [op |-> "validateSession", args |-> [sessionToken |-> sessionToken],
                result |-> [found |-> validateSession(sessionToken)]]
    /\ UNCHANGED <<now, users, securityLogs, alerts, dataStore, uuids, ticks, hist, ui, calls>>

HasDataAccess(sessionToken, requestedStudyId) ==
    /\ sessions' = SessionsAfterValidate(sessionToken)
    /\ last' = [op |-> "hasDataAccess",
                args |-> [sessionToken |-> sessionToken, studyId |-> requestedStudyId],
                result |-> [granted |-> hasDataAccess(sessionToken, requestedStudyId)]]
    /\ UNCHANGED <<now, users, securityLogs, alerts, dataStore, uuids, ticks, hist, ui, calls>>

\* Variant: logout empties the session store
Logout_ClearsStore(sessionToken) ==
    /\ sessions' = <<>>
    /\ last' = [op |-> "logout", args |-> [sessionToken |-> sessionToken], result |-> Void]
    /\ UNCHANGED <<now, users, securityLogs, alerts, dataStore, uuids, ticks, hist, ui, calls>>

Logout(sessionToken) ==
    /\ sessions' = SelectSeq(sessions, LAMBDA s : s.sessionToken # sessionToken)
    /\ last' = [op |-> "logout", args |-> [sessionToken |-> sessionToken], result |-> Void]
    /\ UNCHANGED <<now, users, securityLogs, alerts, dataStore, uuids, ticks, hist, ui, calls>>

\* Something other than the application (an older build, another script of the
\* origin, the user's developer tools) leaves text that is no JSON under the
\* key of the security log
CorruptSecurityLog ==
    /\ securityLogs # Unparsable
    /\ securityLogs' = Unparsable
    /\ last' = [op |-> "corruptSecurityLog", args |-> Void, result |-> Void]
    /\ UNCHANGED <<now, users, sessions, alerts, dataStore, uuids, ticks, hist, ui, calls>>

---------------------------------------------------------------------------
(* utils/auth: loginUser *)

LoginIndex(studyIdOrEmail) ==
    LET sanitizedInput == sanitizeInput(toLowerCase(studyIdOrEmail))
    IN  FindIndex(users, LAMBDA u : \/ toLowerCase(u.studyId) = sanitizedInput
                                    \/ toLowerCase(u.email) = sanitizedInput)

\* Variants: the lock still holds at lockedUntil itself; the lock is not checked
IsLocked_Inclusive(user) == user.lockedUntil # Undefined /\ now <= user.lockedUntil[1]
IsLocked_Unchecked(user) == FALSE

IsLocked(user) == user.lockedUntil # Undefined /\ now < user.lockedUntil[1]

\* Math.ceil((lockedUntil - now) / (1000 * 60)), for lockedUntil > now
LockTimeRemaining(user) == ((user.lockedUntil[1] - now) + 59999) \div 60000

\* Variant: only the wrong password that reaches the threshold locks
FailedLogin_LocksOnce(user) ==
    IF user.failedAttempts + 1 = MAX_FAILED_ATTEMPTS
    THEN [user EXCEPT !.failedAttempts = @ + 1,
                      !.lockedUntil = Some(now + LOCK_DURATION)]
    ELSE [user EXCEPT !.failedAttempts = @ + 1]

\* Variant: the account is locked one wrong password before the threshold
FailedLogin_LocksEarly(user) ==
    IF user.failedAttempts + 2 >= MAX_FAILED_ATTEMPTS
    THEN [user EXCEPT !.failedAttempts = @ + 1,
                      !.lockedUntil = Some(now + LOCK_DURATION)]
    ELSE [user EXCEPT !.failedAttempts = @ + 1]

\* The record of the user after a wrong password
FailedLogin(user) ==
    IF user.failedAttempts + 1 >= MAX_FAILED_ATTEMPTS
    THEN [user EXCEPT !.failedAttempts = @ + 1,
                      !.lockedUntil = Some(now + LOCK_DURATION)]
    ELSE [user EXCEPT !.failedAttempts = @ + 1]

\* Variant: a successful login withdraws an outstanding reset ticket
SuccessfulLogin_ClearsTicket(user) ==
    [user EXCEPT !.failedAttempts = 0, !.lockedUntil = Undefined, !.lastLogin = now,
                 !.resetToken = Undefined, !.resetTokenExpiry = Undefined]

\* Variant: a successful login keeps the failure counter
SuccessfulLogin_KeepsCounter(user) ==
    [user EXCEPT !.lockedUntil = Undefined, !.lastLogin = now]

\* The record of the user after a correct password
SuccessfulLogin(user) ==
    [user EXCEPT !.failedAttempts = 0, !.lockedUntil = Undefined, !.lastLogin = now]

LoginUser(studyIdOrEmail, password) ==
    LET i == LoginIndex(studyIdOrEmail)
        user == users[i]
        Return(result) == [op |-> "loginUser",
                           args |-> [studyIdOrEmail |-> studyIdOrEmail, password |-> password],
                           result |-> result]
    IN  IF i = 0 THEN
            \* no such user
            IF logSecurityEventThrows THEN
                \* the throw lands in the catch of loginUser
                /\ last' = Return([success |-> FALSE, error |-> "LoginFailed"])
                /\ UNCHANGED <<now, users, sessions, securityLogs, alerts, dataStore, uuids,
                               ticks, hist, ui, calls>>
            ELSE
                /\ LogHasRoom
                /\ securityLogs' = logSecurityEvent(securityLogs, "INVALID_CREDENTIALS",
                                                    sanitizeInput(toLowerCase(studyIdOrEmail)))
                /\ last' = Return([success |-> FALSE, error |-> "InvalidCredentials"])
                /\ UNCHANGED <<now, users, sessions, alerts, dataStore, uuids, ticks, hist, ui, calls>>
        ELSE IF IsLocked(user) THEN
            /\ last' = Return([success |-> FALSE, error |-> "AccountLocked", locked |-> TRUE,
                               lockTimeRemaining |-> LockTimeRemaining(user)])
            /\ UNCHANGED <<now, users, sessions, securityLogs, alerts, dataStore, uuids, ticks, hist, ui, calls>>
        ELSE IF /\ ~verifyPassword(password, user.passwordHash)
                /\ user.failedAttempts + 1 >= MAX_FAILED_ATTEMPTS
                /\ logSecurityEventThrows THEN
            \* the counter and the lock are set on the in-memory copy and the alert
            \* is sent, then logSecurityEvent throws: saveUsers is never reached
            /\ LogHasRoom
            /\ alerts' = alerts + 1
            /\ last' = Return([success |-> FALSE, error |-> "LoginFailed"])
            /\ hist' = [hist EXCEPT !.streak[i] = @ + 1]
            /\ UNCHANGED <<now, users, sessions, securityLogs, dataStore, uuids, ticks, ui, calls>>
        ELSE IF ~verifyPassword(password, user.passwordHash) THEN
            /\ user.failedAttempts < MaxFailed
            /\ user.failedAttempts + 1 = MAX_FAILED_ATTEMPTS => LogHasRoom
            /\ users' = [users EXCEPT ![i] = FailedLogin(user)]
            /\ IF user.failedAttempts + 1 >= MAX_FAILED_ATTEMPTS
               THEN /\ alerts' = alerts + 1
                    /\ securityLogs' = logSecurityEvent(securityLogs, "ACCOUNT_LOCKED", user.email)
               ELSE UNCHANGED <<alerts, securityLogs>>
            /\ last' = Return([success |-> FALSE, error |-> "InvalidPassword",
                               attemptsRemaining |-> MAX_FAILED_ATTEMPTS - (user.failedAttempts + 1)])
            /\ hist' = [hist EXCEPT !.streak[i] = @ + 1]
            /\ UNCHANGED <<now, sessions, dataStore, uuids, ticks, ui, calls>>
        ELSE
            /\ uuids < MaxUuid
            /\ users' = [users EXCEPT ![i] = SuccessfulLogin(user)]
            /\ sessions' = createSession(sessions, SuccessfulLogin(user))
            /\ uuids' = uuids + 1
            /\ last' = Return([success |-> TRUE, user |-> SuccessfulLogin(user),
                               sessionToken |-> uuidv4])
            /\ hist' = [hist EXCEPT !.streak[i] = 0,
                                    !.issued = @ \cup {<<uuidv4, user.studyId>>}]
            /\ UNCHANGED <<now, securityLogs, alerts, dataStore, ticks, ui, calls>>

---------------------------------------------------------------------------
(* utils/auth: password reset *)

EmailIndex(email) ==
    FindIndex(users, LAMBDA u : u.email = sanitizeInput(toLowerCase(email)))

\* Variant: a request for an email no user has is answered with an error
InitiatePasswordReset_RevealsAccount(email) ==
    LET i == EmailIndex(email)
        Return(result) == [op |-> "initiatePasswordReset", args |-> [email |-> email],
                           result |-> result]
    IN  IF ~validateEmail(sanitizeInput(toLowerCase(email))) THEN
            /\ last' = Return([success |-> FALSE, error |-> "InvalidEmail"])
            /\ UNCHANGED <<now, users, sessions, securityLogs, alerts, dataStore, uuids, ticks, hist, ui, calls>>
        ELSE IF i = 0 THEN
            /\ last' = Return([success |-> FALSE, error |-> "NoSuchUser"])
            /\ UNCHANGED <<now, users, sessions, securityLogs, alerts, dataStore, uuids, ticks, hist, ui, calls>>
        ELSE
            /\ uuids < MaxUuid
            /\ users' = [users EXCEPT ![i].resetToken = Some(uuidv4),
                                      ![i].resetTokenExpiry = Some(now + RESET_TOKEN_DURATION)]
            /\ uuids' = uuids + 1
            /\ last' = Return([success |-> TRUE])
            /\ UNCHANGED <<now, sessions, securityLogs, alerts, dataStore, ticks, hist, ui, calls>>

InitiatePasswordReset(email) ==
    LET i == EmailIndex(email)
        Return(result) == [op |-> "initiatePasswordReset", args |-> [email |-> email],
                           result |-> result]
    IN  IF ~validateEmail(sanitizeInput(toLowerCase(email))) THEN
            /\ last' = Return([success |-> FALSE, error |-> "InvalidEmail"])
            /\ UNCHANGED <<now, users, sessions, securityLogs, alerts, dataStore, uuids, ticks, hist, ui, calls>>
        ELSE IF i = 0 THEN
            /\ last' = Return([success |-> TRUE])
            /\ UNCHANGED <<now, users, sessions, securityLogs, alerts, dataStore, uuids, ticks, hist, ui, calls>>
        ELSE
            /\ uuids < MaxUuid
            /\ users' = [users EXCEPT ![i].resetToken = Some(uuidv4),
                                      ![i].resetTokenExpiry = Some(now + RESET_TOKEN_DURATION)]
            /\ uuids' = uuids + 1
            /\ last' = Return([success |-> TRUE])
            /\ UNCHANGED <<now, sessions, securityLogs, alerts, dataStore, ticks, hist, ui, calls>>

\* Variant: the expiry of the ticket is not checked
ResetRefused_IgnoresExpiry(i, resetToken) ==
    \/ i = 0
    \/ users[i].resetToken # Some(resetToken)
    \/ users[i].resetTokenExpiry = Undefined

\* The ticket check of resetPassword: the request is refused when this holds
ResetRefused(i, resetToken) ==
    \/ i = 0
    \/ users[i].resetToken # Some(resetToken)
    \/ users[i].resetTokenExpiry = Undefined
    \/ now > users[i].resetTokenExpiry[1]

\* Variants: a reset keeps the lock; a reset keeps the ticket
PasswordReset_KeepsLock(user, passwordHash) ==
    [user EXCEPT !.passwordHash = passwordHash,
                 !.resetToken = Undefined,
                 !.resetTokenExpiry = Undefined]
PasswordReset_KeepsTicket(user, passwordHash) ==
    [user EXCEPT !.passwordHash = passwordHash,
                 !.failedAttempts = 0,
                 !.lockedUntil = Undefined]

\* The record of the user after a successful reset
PasswordReset(user, passwordHash) ==
    [user EXCEPT !.passwordHash = passwordHash,
                 !.resetToken = Undefined,
                 !.resetTokenExpiry = Undefined,
                 !.failedAttempts = 0,
                 !.lockedUntil = Undefined]

ResetPassword(email, resetToken, newPassword, salt) ==
    LET i == EmailIndex(email)
        Return(result) == [op |-> "resetPassword",
                           args |-> [email |-> email, resetToken |-> resetToken,
                                     newPassword |-> newPassword],
                           result |-> result]
    IN  IF ~validatePassword(newPassword).isValid THEN
            /\ last' = Return([success |-> FALSE, error |-> "WeakPassword",
                               errors |-> validatePassword(newPassword).errors])
            /\ UNCHANGED <<now, users, sessions, securityLogs, alerts, dataStore, uuids, ticks, hist, ui, calls>>
        ELSE IF ResetRefused(i, resetToken) THEN
            /\ last' = Return([success |-> FALSE, error |-> "InvalidOrExpiredToken"])
            /\ UNCHANGED <<now, users, sessions, securityLogs, alerts, dataStore, uuids, ticks, hist, ui, calls>>
        ELSE
            /\ users' = [users EXCEPT ![i] = PasswordReset(users[i], hashPassword(newPassword, salt))]
            /\ last' = Return([success |-> TRUE])
            /\ hist' = [hist EXCEPT !.consumed = @ \cup {<<users[i].email, resetToken>>}]
            /\ UNCHANGED <<now, sessions, securityLogs, alerts, dataStore, uuids, ticks, ui, calls>>

---------------------------------------------------------------------------
(* utils/auth: registerUser, loginUser and resetPassword around their await *)

\* The browser tabs of the origin: they share localStorage, and each runs one
\* auth call at a time (the forms disable their button while `loading`)
Tabs == {"tab1", "tab2"}

\* No call is suspended
Idle == [op |-> "idle"]
NoCalls == [tab \in Tabs |-> Idle]

\* registerUser up to `await hashPassword(password)`: the inputs are validated
\* and the user list is read and searched; the call is then suspended
AwaitRegister(tab, email, password, preferredName, customStudyId) ==
    LET result == RegisterResult(email, password, preferredName, customStudyId)
    IN  /\ calls[tab] = Idle
        /\ result.success
        /\ customStudyId = "" => uuids < MaxUuid
        /\ uuids' = IF customStudyId = "" THEN uuids + 1 ELSE uuids
        /\ calls' = [calls EXCEPT ![tab] =
                        [op |-> "registerUser",
                         args |-> [email |-> email, password |-> password,
                                   preferredName |-> preferredName,
                                   customStudyId |-> customStudyId],
                         users |-> users,
                         studyId |-> result.studyId]]
        /\ last' = [op |-> "await", args |-> [tab |-> tab], result |-> Void]
        /\ UNCHANGED <<now, users, sessions, securityLogs, alerts, dataStore, ticks, hist, ui>>

\* Variant: the user list is read again after the await
ResumeRegister_ReadsAgain(tab, salt) ==
    LET call == calls[tab]
    IN  /\ call.op = "registerUser"
        /\ users' = Append(users,
                           NewUser(call.studyId,
                                   sanitizeInput(toLowerCase(call.args.email)),
                                   hashPassword(call.args.password, salt),
                                   sanitizeInput(call.args.preferredName)))
        /\ calls' = [calls EXCEPT ![tab] = Idle]
        /\ last' = [op |-> "registerUser", args |-> call.args,
                    result |-> [success |-> TRUE, studyId |-> call.studyId]]
        /\ UNCHANGED <<now, sessions, securityLogs, alerts, dataStore, uuids, ticks, hist, ui>>

\* registerUser from the await on: the new user is pushed onto the list read
\* before the await and that list is saved
ResumeRegister(tab, salt) ==
    LET call == calls[tab]
    IN  /\ call.op = "registerUser"
        /\ users' = Append(call.users,
                           NewUser(call.studyId,
                                   sanitizeInput(toLowerCase(call.args.email)),
                                   hashPassword(call.args.password, salt),
                                   sanitizeInput(call.args.preferredName)))
        /\ calls' = [calls EXCEPT ![tab] = Idle]
        /\ last' = [op |-> "registerUser", args |-> call.args,
                    result |-> [success |-> TRUE, studyId |-> call.studyId]]
        /\ UNCHANGED <<now, sessions, securityLogs, alerts, dataStore, uuids, ticks, hist, ui>>

\* loginUser up to `await verifyPassword(...)`: the user is found in the list
\* read and is not locked
AwaitLogin(tab, studyIdOrEmail, password) ==
    LET i == LoginIndex(studyIdOrEmail)
    IN  /\ calls[tab] = Idle
        /\ i # 0
        /\ ~IsLocked(users[i])
        /\ calls' = [calls EXCEPT ![tab] =
                        [op |-> "loginUser",
                         args |-> [studyIdOrEmail |-> studyIdOrEmail, password |-> password],
                         users |-> users,
                         i |-> i]]
        /\ last' = [op |-> "await", args |-> [tab |-> tab], result |-> Void]
        /\ UNCHANGED <<now, users, sessions, securityLogs, alerts, dataStore, uuids, ticks,
                       hist, ui>>

\* loginUser from the await on: the user of the list read before the await is
\* updated and that list is saved
ResumeLogin(tab) ==
    LET call == calls[tab]
        i == call.i
        user == call.users[i]
        Return(result) == [op |-> "loginUser", args |-> call.args, result |-> result]
    IN  /\ call.op = "loginUser"
        /\ calls' = [calls EXCEPT ![tab] = Idle]
        /\ IF /\ ~verifyPassword(call.args.password, user.passwordHash)
              /\ user.failedAttempts + 1 >= MAX_FAILED_ATTEMPTS
              /\ logSecurityEventThrows THEN
              /\ LogHasRoom
              /\ alerts' = alerts + 1
              /\ last' = Return([success |-> FALSE, error |-> "LoginFailed"])
              /\ UNCHANGED <<now, users, sessions, securityLogs, dataStore, uuids, ticks,
                             hist, ui>>
           ELSE IF ~verifyPassword(call.args.password, user.passwordHash) THEN
              /\ user.failedAttempts < MaxFailed
              /\ user.failedAttempts + 1 = MAX_FAILED_ATTEMPTS => LogHasRoom
              /\ users' = [call.users EXCEPT ![i] = FailedLogin(user)]
              /\ IF user.failedAttempts + 1 >= MAX_FAILED_ATTEMPTS
                 THEN /\ alerts' = alerts + 1
                      /\ securityLogs' = logSecurityEvent(securityLogs, "ACCOUNT_LOCKED",
                                                          user.email)
                 ELSE UNCHANGED <<alerts, securityLogs>>
              /\ last' = Return([success |-> FALSE, error |-> "InvalidPassword",
                                 attemptsRemaining |->
                                     MAX_FAILED_ATTEMPTS - (user.failedAttempts + 1)])
              /\ UNCHANGED <<now, sessions, dataStore, uuids, ticks, hist, ui>>
           ELSE
              /\ uuids < MaxUuid
              /\ users' = [call.users EXCEPT ![i] = SuccessfulLogin(user)]
              /\ sessions' = createSession(sessions, SuccessfulLogin(user))
              /\ uuids' = uuids + 1
              /\ last' = Return([success |-> TRUE, user |-> SuccessfulLogin(user),
                                 sessionToken |-> uuidv4])
              /\ hist' = [hist EXCEPT !.issued = @ \cup {<<uuidv4, user.studyId>>}]
              /\ UNCHANGED <<now, securityLogs, alerts, dataStore, ticks, ui>>

\* resetPassword up to `await hashPassword(newPassword)`: the password passes
\* the policy and the ticket of the user in the list read is accepted
AwaitReset(tab, email, resetToken, newPassword) ==
    LET i == EmailIndex(email)
    IN  /\ calls[tab] = Idle
        /\ validatePassword(newPassword).isValid
        /\ ~ResetRefused(i, resetToken)
        /\ calls' = [calls EXCEPT ![tab] =
                        [op |-> "resetPassword",
                         args |-> [email |-> email, resetToken |-> resetToken,
                                   newPassword |-> newPassword],
                         users |-> users,
                         i |-> i]]
        /\ last' = [op |-> "await", args |-> [tab |-> tab], result |-> Void]
        /\ UNCHANGED <<now, users, sessions, securityLogs, alerts, dataStore, uuids, ticks,
                       hist, ui>>

\* resetPassword from the await on
ResumeReset(tab, salt) ==
    LET call == calls[tab]
        i == call.i
    IN  /\ call.op = "resetPassword"
        /\ users' = [call.users EXCEPT
                        ![i] = PasswordReset(call.users[i],
                                             hashPassword(call.args.newPassword, salt))]
        /\ calls' = [calls EXCEPT ![tab] = Idle]
        /\ last' = [op |-> "resetPassword", args |-> call.args,
                    result |-> [success |-> TRUE]]
        /\ hist' = [hist EXCEPT !.consumed = @ \cup {<<call.users[i].email,
                                                      call.args.resetToken>>}]
        /\ UNCHANGED <<now, sessions, securityLogs, alerts, dataStore, uuids, ticks, ui>>

---------------------------------------------------------------------------
(* utils/secureStorage *)

getUserDataKey(studyId) == "pomogrow_data_" \o studyId

\* btoa(JSON.stringify(userData)) and JSON.parse(atob(encryptedData))
Encode(userData) == <<"base64", userData>>
Decode(encryptedData) == encryptedData[2]

createInitialUserData(user) ==
    [studyId |-> user.studyId,
     loginId |-> user.studyId,
     displayName |-> user.preferredName,
     mood |-> "motivated",
     joinDate |-> user.createdAt,
     pomodorosCompleted |-> 0,
     badges |-> <<>>,
     trees |-> 0,
     studySessions |-> <<>>,
     exams |-> <<>>,
     skipDays |-> <<>>,
     lastActiveDate |-> now,
     emotionEntries |-> <<>>,
     timetable |-> <<>>]

\* Variant: the record is saved without the access check
saveSecureUserData_Unchecked(userData, sessionToken) == TRUE

\* What saveSecureUserData returns
saveSecureUserData(userData, sessionToken) ==
    hasDataAccess(sessionToken, userData.studyId)

\* The storage saveSecureUserData leaves behind
StoreAfterSave(userData, sessionToken) ==
    IF saveSecureUserData(userData, sessionToken)
    THEN [dataStore EXCEPT ![getUserDataKey(userData.studyId)] = Some(Encode(userData))]
    ELSE dataStore

\* What loadSecureUserData returns (Undefined for null)
loadSecureUserData(studyId, sessionToken) ==
    IF ~hasDataAccess(sessionToken, studyId) THEN Undefined
    ELSE IF dataStore[getUserDataKey(studyId)] = Undefined THEN Undefined
    ELSE Some(Decode(dataStore[getUserDataKey(studyId)][1]))

SaveSecureUserData(userData, sessionToken) ==
    /\ sessions' = SessionsAfterValidate(sessionToken)
    /\ dataStore' = StoreAfterSave(userData, sessionToken)
    /\ last' = [op |-> "saveSecureUserData",
                args |-> [studyId |-> userData.studyId, sessionToken |-> sessionToken],
                result |-> [saved |-> saveSecureUserData(userData, sessionToken)]]
    /\ UNCHANGED <<now, users, securityLogs, alerts, uuids, ticks, hist, ui, calls>>

LoadSecureUserData(studyId, sessionToken) ==
    /\ sessions' = SessionsAfterValidate(sessionToken)
    /\ last' = [op |-> "loadSecureUserData",
                args |-> [studyId |-> studyId, sessionToken |-> sessionToken],
                result |-> [data |-> loadSecureUserData(studyId, sessionToken)]]
    /\ UNCHANGED <<now, users, securityLogs, alerts, dataStore, uuids, ticks, hist, ui, calls>>

\* load, change the loaded record with Change, save it back; Null is what the
\* caller gets when the load gives nothing, Result(saved, record) otherwise
LoadChangeSave(op, studyId, sessionToken, Change(_), Null, Result(_, _)) ==
    LET loaded == loadSecureUserData(studyId, sessionToken)
    IN  /\ sessions' = SessionsAfterValidate(sessionToken)
        /\ IF loaded = Undefined
           THEN /\ dataStore' = dataStore
                /\ last' = [op |-> op, args |-> [studyId |-> studyId, sessionToken |-> sessionToken],
                            result |-> Null]
           ELSE /\ dataStore' = StoreAfterSave(Change(loaded[1]), sessionToken)
                /\ last' = [op |-> op,
                            args |-> [studyId |-> studyId, sessionToken |-> sessionToken],
                            result |-> Result(saveSecureUserData(Change(loaded[1]), sessionToken),
                                              Change(loaded[1]))]
        /\ UNCHANGED <<now, users, securityLogs, alerts, uuids, ticks, hist, ui, calls>>

\* The model adds an entry to a record only while the records of the store
\* hold fewer than MaxEntries entries altogether
StoredEntries ==
    {<<key, n>> \in (DOMAIN dataStore) \X (1..MaxEntries) :
        /\ dataStore[key] # Undefined
        /\ LET d == Decode(dataStore[key][1])
           IN  n <= Len(d.studySessions) + Len(d.emotionEntries) + Len(d.timetable)}
HasRoom(loaded) == loaded # Undefined => Cardinality(StoredEntries) < MaxEntries

\* { ...currentData, ...updates }
Merge(currentData, updates) == updates @@ currentData

UpdateSecureUserData(studyId, sessionToken, updates) ==
    LoadChangeSave("updateSecureUserData", studyId, sessionToken,
                   LAMBDA d : Merge(d, updates),
                   [data |-> Undefined],
                   LAMBDA saved, d : [data |-> IF saved THEN Some(d) ELSE Undefined])

AddStudySession(studyId, sessionToken, session) ==
    /\ HasRoom(loadSecureUserData(studyId, sessionToken))
    /\ LoadChangeSave("addStudySession", studyId, sessionToken,
                      LAMBDA d : [d EXCEPT !.studySessions = Append(@, session),
                                           !.lastActiveDate = now],
                      [saved |-> FALSE],
                      LAMBDA saved, d : [saved |-> saved])

AddEmotionEntry(studyId, sessionToken, entry) ==
    /\ HasRoom(loadSecureUserData(studyId, sessionToken))
    /\ LoadChangeSave("addEmotionEntry", studyId, sessionToken,
                      LAMBDA d : [d EXCEPT !.emotionEntries = Append(@, entry)],
                      [saved |-> FALSE],
                      LAMBDA saved, d : [saved |-> saved])

AddTimetableEntry(studyId, sessionToken, entry) ==
    /\ HasRoom(loadSecureUserData(studyId, sessionToken))
    /\ LoadChangeSave("addTimetableEntry", studyId, sessionToken,
                      LAMBDA d : [d EXCEPT !.timetable = Append(@, entry)],
                      [saved |-> FALSE],
                      LAMBDA saved, d : [saved |-> saved])

DeleteUserData(studyId, sessionToken) ==
    /\ sessions' = SessionsAfterValidate(sessionToken)
    /\ dataStore' = IF hasDataAccess(sessionToken, studyId)
                    THEN [dataStore EXCEPT ![getUserDataKey(studyId)] = Undefined]
                    ELSE dataStore
    /\ last' = [op |-> "deleteUserData",
                args |-> [studyId |-> studyId, sessionToken |-> sessionToken],
                result |-> [saved |-> hasDataAccess(sessionToken, studyId)]]
    /\ UNCHANGED <<now, users, securityLogs, alerts, uuids, ticks, hist, ui, calls>>

---------------------------------------------------------------------------
(* utils/badges *)

\* Dates are milliseconds since the epoch, in a tab whose time zone is UTC
MS_PER_HOUR == 60 * 60 * 1000
MS_PER_DAY == 24 * 60 * 60 * 1000
getHours(date) == (date \div MS_PER_HOUR) % 24
\* new Date(date).toDateString(), as the number of the day
toDateString(date) == date \div MS_PER_DAY
\* Date.prototype.getDay: 0 is Sunday; day 0 (1 January 1970) was a Thursday
getDay(day) == (day + 4) % 7

getAllPossibleBadges ==
    << [id |-> "first_pomodoro", name |-> "Focus Finisher",
        description |-> "Completed your first Pomodoro session"],
       [id |-> "early_bird", name |-> "Early Bird",
        description |-> "Completed a session before 8 AM"],
       [id |-> "night_owl", name |-> "Night Owl",
        description |-> "Completed a session after 10 PM"],
       [id |-> "consistency_champion", name |-> "Consistency Champion",
        description |-> "Studied for 7 days in a row"],
       [id |-> "forest_starter", name |-> "Forest Starter",
        description |-> "Planted your first 10 trees"],
       [id |-> "tree_hugger", name |-> "Tree Hugger",
        description |-> "Planted 50 trees in your virtual forest"],
       [id |-> "forest_guardian", name |-> "Forest Guardian",
        description |-> "Planted 100 trees - you're making a difference!"],
       [id |-> "pomodoro_master", name |-> "Pomodoro Master",
        description |-> "Completed 500 Pomodoro sessions"],
       [id |-> "deadline_dodger", name |-> "Deadline Dodger Slayer",
        description |-> "Studied consistently before an exam"],
       [id |-> "weekend_warrior", name |-> "Weekend Warrior",
        description |-> "Studied on both weekend days"],
       [id |-> "study_marathon", name |-> "Study Marathon",
        description |-> "Completed 10 Pomodoros in a single day"],
       [id |-> "month_achiever", name |-> "Month Achiever",
        description |-> "Studied every day for a month"] >>

\* The days on which the user has a study session
StudyDays(userData) ==
    {toDateString(userData.studySessions[i].date) : i \in 1..Len(userData.studySessions)}

getStudyStreak(userData) ==
    LET days == StudyDays(userData)
        today == toDateString(now)
    IN  IF days = {} THEN 0
        ELSE LET latest == CHOOSE d \in days : \A e \in days : e <= d
             IN  IF latest # today /\ latest # today - 1 THEN 0
                 ELSE CHOOSE n \in 1..Cardinality(days) :
                        /\ \A k \in 0..(n - 1) : latest - k \in days
                        /\ latest - n \notin days

checkWeekendWarrior(userData) ==
    LET sunday == toDateString(now) - getDay(toDateString(now))
        saturday == sunday + 6
    IN  saturday \in StudyDays(userData) /\ sunday \in StudyDays(userData)

checkStudyMarathon(userData) ==
    \E d \in StudyDays(userData) :
        Cardinality({i \in 1..Len(userData.studySessions) :
                        toDateString(userData.studySessions[i].date) = d}) >= 10

checkDeadlineDodger(userData) ==
    \E e \in 1..Len(userData.exams) :
        LET examDate == userData.exams[e].date
            fiveDaysBefore == examDate - 5 * MS_PER_DAY
        IN  Cardinality({i \in 1..Len(userData.studySessions) :
                            /\ userData.studySessions[i].date >= fiveDaysBefore
                            /\ userData.studySessions[i].date <= examDate}) >= 5

\* The condition of the switch of awardBadge for one badge id
shouldAward(id, userData) ==
    CASE id = "first_pomodoro" -> userData.pomodorosCompleted >= 1
      [] id = "forest_starter" -> userData.trees >= 10
      [] id = "tree_hugger" -> userData.trees >= 50
      [] id = "forest_guardian" -> userData.trees >= 100
      [] id = "pomodoro_master" -> userData.pomodorosCompleted >= 500
      [] id = "early_bird" ->
            \E i \in 1..Len(userData.studySessions) :
                getHours(userData.studySessions[i].date) < 8
      [] id = "night_owl" ->
            \E i \in 1..Len(userData.studySessions) :
                getHours(userData.studySessions[i].date) >= 22
      [] id = "consistency_champion" -> getStudyStreak(userData) >= 7
      [] id = "month_achiever" -> getStudyStreak(userData) >= 30
      [] id = "weekend_warrior" -> checkWeekendWarrior(userData)
      [] id = "study_marathon" -> checkStudyMarathon(userData)
      [] id = "deadline_dodger" -> checkDeadlineDodger(userData)
      [] OTHER -> FALSE

\* Variant: badges already earned are awarded again
awardBadge_AwardsAgain(userData) ==
    LET awarded == SelectSeq(getAllPossibleBadges,
                             LAMBDA badge : shouldAward(badge.id, userData))
    IN  [i \in 1..Len(awarded) |->
            [id |-> awarded[i].id, name |-> awarded[i].name,
             description |-> awarded[i].description, earnedDate |-> now]]

awardBadge(userData) ==
    LET earnedBadgeIds == {userData.badges[i].id : i \in 1..Len(userData.badges)}
        awarded == SelectSeq(getAllPossibleBadges,
                             LAMBDA badge : /\ badge.id \notin earnedBadgeIds
                                            /\ shouldAward(badge.id, userData))
    IN  [i \in 1..Len(awarded) |->
            [id |-> awarded[i].id, name |-> awarded[i].name,
             description |-> awarded[i].description, earnedDate |-> now]]

---------------------------------------------------------------------------
(* App, components/ExamPlanner, components/StudyTimer: one open tab *)

\* useState(...) of ExamPlanner at mount
EmptyForm == [subject |-> "", date |-> 0, time |-> "", location |-> "", notes |-> ""]
MountExamPlanner(initialUserData) ==
    [userData |-> initialUserData,
     showAddForm |-> FALSE,
     editingExam |-> Undefined,
     formData |-> EmptyForm]

\* useState(...) of StudyTimer at mount
MountStudyTimer(initialUserData) ==
    [userData |-> initialUserData,
     timeLeft |-> 25 * 60,
     isActive |-> FALSE,
     isBreak |-> FALSE,
     pomodoroCount |-> 0,
     focusTime |-> 25,
     shortBreakTime |-> 5,
     longBreakTime |-> 15,
     effectDue |-> FALSE]

\* StudyTimer: the effect with the dependencies [isActive, timeLeft] runs after
\* a render in which one of them has changed, and calls handleTimerComplete
\* when it finds timeLeft === 0 (its other branches start and clear the
\* interval); effectDue says that this call is about to happen
AfterRender(timer, rendered) ==
    [rendered EXCEPT !.effectDue = /\ \/ rendered.isActive # timer.isActive
                                      \/ rendered.timeLeft # timer.timeLeft
                                   /\ rendered.timeLeft = 0]

\* StudyTimer: the effect has to call handleTimerComplete before anything
\* else happens in the tab
EffectPending == ui.screen = "timer" /\ ui.timer[1].effectDue

\* The model lets a focus session complete only below MaxPomodoros completions
CompletionBound(timer) ==
    (timer.effectDue /\ ~timer.isBreak) => ui.completionMessages < MaxPomodoros

\* A handler of the tab has run; saved is what its saveSecureUserData call returned
Handled(op, saved) == [op |-> op, args |-> Void, result |-> [saved |-> saved]]

\* App: the navigation buttons, setCurrentScreen(item.id)
Navigate(screen) ==
    /\ ui.screen \notin {"none", "login", screen}
    /\ ~EffectPending
    /\ ui' = [ui EXCEPT !.screen = screen,
                        !.planner = IF screen = "planner"
                                    THEN Some(MountExamPlanner(ui.userData[1]))
                                    ELSE Undefined,
                        !.timer = IF screen = "timer"
                                  THEN Some(MountStudyTimer(ui.userData[1]))
                                  ELSE Undefined]
    /\ last' = [op |-> "navigate", args |-> Void, result |-> Void]
    /\ UNCHANGED <<now, users, sessions, securityLogs, alerts, dataStore, uuids, ticks, hist, calls>>

\* App.handleLogout
HandleLogout ==
    /\ ui.screen \notin {"none", "login"}
    /\ ~EffectPending
    /\ sessions' = SelectSeq(sessions, LAMBDA x : x.sessionToken # ui.sessionToken[1])
    /\ ui' = [ui EXCEPT !.screen = "login", !.userData = Undefined,
                        !.sessionToken = Undefined,
                        !.planner = Undefined, !.timer = Undefined]
    /\ last' = [op |-> "handleLogout", args |-> Void, result |-> Void]
    /\ UNCHANGED <<now, users, securityLogs, alerts, dataStore, uuids, ticks, hist, calls>>

\* AuthScreen.handleLogin with the user's own credentials, then App.handleLogin:
\* loginUser succeeds and issues a session, the record is loaded (or created
\* and saved) under the new token and the dashboard is shown
HandleLogin ==
    /\ ui.screen = "login"
    /\ uuids < MaxUuid
    /\ ~IsLocked(users[1])
    /\ LET user == SuccessfulLogin(users[1])
           token == uuidv4
           key == getUserDataKey(user.studyId)
           secureUserData == IF dataStore[key] = Undefined
                             THEN createInitialUserData(user)
                             ELSE Decode(dataStore[key][1])
       IN  /\ users' = [users EXCEPT ![1] = user]
           /\ sessions' = createSession(sessions, user)
           /\ uuids' = uuids + 1
           /\ dataStore' = IF dataStore[key] = Undefined
                           THEN [dataStore EXCEPT ![key] = Some(Encode(secureUserData))]
                           ELSE dataStore
           /\ ui' = [ui EXCEPT !.screen = "dashboard",
                               !.userData = Some(secureUserData),
                               !.sessionToken = Some(token)]
           /\ hist' = [hist EXCEPT !.streak[1] = 0,
                                   !.issued = @ \cup {<<token, user.studyId>>}]
    /\ last' = [op |-> "handleLogin", args |-> Void, result |-> Void]
    /\ UNCHANGED <<now, securityLogs, alerts, ticks, calls>>

\* ExamPlanner: the Add Exam button
ShowAddForm ==
    /\ ui.screen = "planner"
    /\ ~ui.planner[1].showAddForm
    /\ ui' = [ui EXCEPT !.planner[1].showAddForm = TRUE]
    /\ last' = [op |-> "showAddForm", args |-> Void, result |-> Void]
    /\ UNCHANGED <<now, users, sessions, securityLogs, alerts, dataStore, uuids, ticks, hist, calls>>

\* ExamPlanner: the user fills the form in (the onChange handlers of its fields)
FillForm(formData) ==
    /\ ui.screen = "planner"
    /\ ui.planner[1].showAddForm
    /\ ui.planner[1].formData # formData
    /\ ui' = [ui EXCEPT !.planner[1].formData = formData]
    /\ last' = [op |-> "fillForm", args |-> Void, result |-> Void]
    /\ UNCHANGED <<now, users, sessions, securityLogs, alerts, dataStore, uuids, ticks, hist, calls>>

\* ExamPlanner.handleSubmit; the form is submitted with its required fields filled
HandleSubmit ==
    /\ ui.screen = "planner"
    /\ ui.planner[1].showAddForm
    /\ ui.planner[1].formData.subject # ""
    /\ ui.planner[1].formData.time # ""
    /\ LET planner == ui.planner[1]
           userData == planner.userData
           formData == planner.formData
           examData == [id |-> IF planner.editingExam # Undefined
                               THEN planner.editingExam[1].id ELSE now,
                        subject |-> formData.subject,
                        date |-> formData.date,
                        time |-> formData.time,
                        location |-> formData.location,
                        notes |-> formData.notes]
           updatedExams ==
               IF planner.editingExam # Undefined
               THEN [i \in 1..Len(userData.exams) |->
                        IF userData.exams[i].id = planner.editingExam[1].id
                        THEN examData ELSE userData.exams[i]]
               ELSE Append(userData.exams, examData)
           updatedUserData == [userData EXCEPT !.exams = updatedExams]
           success == saveSecureUserData(updatedUserData, ui.sessionToken[1])
       IN  /\ planner.editingExam = Undefined => Len(userData.exams) < MaxEntries
           /\ sessions' = SessionsAfterValidate(ui.sessionToken[1])
           /\ dataStore' = StoreAfterSave(updatedUserData, ui.sessionToken[1])
           /\ ui' = [ui EXCEPT !.userData = IF success THEN Some(updatedUserData) ELSE @,
                               !.planner[1].userData = IF success THEN updatedUserData ELSE @,
                               !.planner[1].formData = EmptyForm,
                               !.planner[1].showAddForm = FALSE,
                               !.planner[1].editingExam = Undefined]
           /\ last' = Handled("handleSubmit", success)
    /\ UNCHANGED <<now, users, securityLogs, alerts, uuids, ticks, hist, calls>>

\* ExamPlanner.handleEdit
HandleEdit(i) ==
    /\ ui.screen = "planner"
    /\ i \in 1..Len(ui.planner[1].userData.exams)
    /\ LET exam == ui.planner[1].userData.exams[i]
       IN  ui' = [ui EXCEPT !.planner[1].formData =
                               [subject |-> exam.subject, date |-> exam.date,
                                time |-> exam.time, location |-> exam.location,
                                notes |-> exam.notes],
                            !.planner[1].editingExam = Some(exam),
                            !.planner[1].showAddForm = TRUE]
    /\ ui' # ui
    /\ last' = [op |-> "handleEdit", args |-> Void, result |-> Void]
    /\ UNCHANGED <<now, users, sessions, securityLogs, alerts, dataStore, uuids, ticks, hist, calls>>

\* ExamPlanner.handleDelete
HandleDelete(i) ==
    /\ ui.screen = "planner"
    /\ i \in 1..Len(ui.planner[1].userData.exams)
    /\ LET userData == ui.planner[1].userData
           examId == userData.exams[i].id
           updatedUserData ==
               [userData EXCEPT !.exams = SelectSeq(@, LAMBDA exam : exam.id # examId)]
           success == saveSecureUserData(updatedUserData, ui.sessionToken[1])
       IN  /\ sessions' = SessionsAfterValidate(ui.sessionToken[1])
           /\ dataStore' = StoreAfterSave(updatedUserData, ui.sessionToken[1])
           /\ ui' = [ui EXCEPT !.userData = IF success THEN Some(updatedUserData) ELSE @,
                               !.planner[1].userData = IF success THEN updatedUserData ELSE @]
           /\ last' = Handled("handleDelete", success)
    /\ UNCHANGED <<now, users, securityLogs, alerts, uuids, ticks, hist, calls>>

\* StudyTimer.toggleTimer
ToggleTimer ==
    /\ ui.screen = "timer"
    /\ ~EffectPending
    /\ LET timer == ui.timer[1]
           rendered == AfterRender(timer, [timer EXCEPT !.isActive = ~@])
       IN  /\ CompletionBound(rendered)
           /\ ui' = [ui EXCEPT !.timer[1] = rendered]
    /\ last' = [op |-> "toggleTimer", args |-> Void, result |-> Void]
    /\ UNCHANGED <<now, users, sessions, securityLogs, alerts, dataStore, uuids, ticks, hist, calls>>

\* StudyTimer.resetTimer
ResetTimer ==
    /\ ui.screen = "timer"
    /\ ~EffectPending
    /\ LET timer == ui.timer[1]
           rendered == AfterRender(timer, [timer EXCEPT !.isActive = FALSE,
                                                        !.isBreak = FALSE,
                                                        !.timeLeft = timer.focusTime * 60,
                                                        !.pomodoroCount = 0])
       IN  /\ CompletionBound(rendered)
           /\ ui' = [ui EXCEPT !.timer[1] = rendered]
    /\ ui' # ui
    /\ last' = [op |-> "resetTimer", args |-> Void, result |-> Void]
    /\ UNCHANGED <<now, users, sessions, securityLogs, alerts, dataStore, uuids, ticks, hist, calls>>

\* StudyTimer.handleTimerComplete, which the effect calls when timeLeft is 0:
\* the record it builds after a focus session ...
CompletedFocus(timer) ==
    LET userData == timer.userData
        updatedUserData ==
            [userData EXCEPT !.pomodorosCompleted = @ + 1,
                             !.studySessions = Append(@, [date |-> now,
                                                          duration |-> timer.focusTime,
                                                          type |-> "focus"]),
                             !.trees = @ + 1]
    IN  [updatedUserData EXCEPT !.badges = userData.badges \o awardBadge(updatedUserData)]

\* ... and the state of the component and of App after it
handleTimerComplete(timer, success) ==
    IF ~timer.isBreak
    THEN LET newPomodoroCount == timer.pomodoroCount + 1
         IN  [timer EXCEPT !.isActive = FALSE,
                           !.pomodoroCount = newPomodoroCount,
                           !.userData = IF success THEN CompletedFocus(timer) ELSE @,
                           !.isBreak = TRUE,
                           !.timeLeft = (IF newPomodoroCount % 4 = 0
                                         THEN timer.longBreakTime
                                         ELSE timer.shortBreakTime) * 60]
    ELSE [timer EXCEPT !.isActive = FALSE,
                       !.isBreak = FALSE,
                       !.timeLeft = timer.focusTime * 60]

\* StudyTimer: the inputs of the settings panel, setFocusTime(Number(value))
\* and its two siblings; the attributes min and max of the inputs do not keep
\* a typed value out, and Number('') is 0
SetFocusTime(value) ==
    /\ ui.screen = "timer"
    /\ ~EffectPending
    /\ ui.timer[1].focusTime # value
    /\ ui' = [ui EXCEPT !.timer[1].focusTime = value]
    /\ last' = [op |-> "setFocusTime", args |-> Void, result |-> Void]
    /\ UNCHANGED <<now, users, sessions, securityLogs, alerts, dataStore, uuids, ticks, hist, calls>>

SetShortBreakTime(value) ==
    /\ ui.screen = "timer"
    /\ ~EffectPending
    /\ ui.timer[1].shortBreakTime # value
    /\ ui' = [ui EXCEPT !.timer[1].shortBreakTime = value]
    /\ last' = [op |-> "setShortBreakTime", args |-> Void, result |-> Void]
    /\ UNCHANGED <<now, users, sessions, securityLogs, alerts, dataStore, uuids, ticks, hist, calls>>

SetLongBreakTime(value) ==
    /\ ui.screen = "timer"
    /\ ~EffectPending
    /\ ui.timer[1].longBreakTime # value
    /\ ui' = [ui EXCEPT !.timer[1].longBreakTime = value]
    /\ last' = [op |-> "setLongBreakTime", args |-> Void, result |-> Void]
    /\ UNCHANGED <<now, users, sessions, securityLogs, alerts, dataStore, uuids, ticks, hist, calls>>

\* StudyTimer: the running countdown (the setInterval of the effect) takes
\* timeLeft to 0, one second of the wall clock for each second counted
Countdown ==
    /\ ui.screen = "timer"
    /\ ui.timer[1].isActive
    /\ ui.timer[1].timeLeft > 0
    /\ LET timer == ui.timer[1]
           rendered == AfterRender(timer, [timer EXCEPT !.timeLeft = 0])
       IN  /\ CompletionBound(rendered)
           /\ ui' = [ui EXCEPT !.timer[1] = rendered]
    /\ now' = now + ui.timer[1].timeLeft * 1000
    /\ last' = [op |-> "countdown", args |-> Void, result |-> Void]
    /\ UNCHANGED <<users, sessions, securityLogs, alerts, dataStore, uuids, ticks, hist, calls>>

\* StudyTimer: the effect finds timeLeft === 0 and calls handleTimerComplete
TimerEffect ==
    /\ EffectPending
    /\ LET timer == ui.timer[1]
           updatedUserData == CompletedFocus(timer)
           success == saveSecureUserData(updatedUserData, ui.sessionToken[1])
       IN  IF ~timer.isBreak
           THEN /\ sessions' = SessionsAfterValidate(ui.sessionToken[1])
                /\ dataStore' = StoreAfterSave(updatedUserData, ui.sessionToken[1])
                /\ ui' = [ui EXCEPT !.timer[1] = AfterRender(timer,
                                                     handleTimerComplete(timer, success)),
                                    !.userData = IF success THEN Some(updatedUserData) ELSE @,
                                    !.completionMessages = @ + 1]
                /\ last' = Handled("handleTimerComplete", success)
           ELSE /\ CompletionBound(AfterRender(timer, handleTimerComplete(timer, TRUE)))
                /\ ui' = [ui EXCEPT !.timer[1] = AfterRender(timer,
                                                     handleTimerComplete(timer, TRUE))]
                /\ last' = [op |-> "handleTimerComplete", args |-> Void, result |-> Void]
                /\ UNCHANGED <<sessions, dataStore>>
    /\ UNCHANGED <<now, users, securityLogs, alerts, uuids, ticks, hist, calls>>

---------------------------------------------------------------------------
(* The clock *)

\* The instants at which the code compares a stored deadline with the clock
LockDeadlines ==
    {users[i].lockedUntil[1] : i \in {j \in 1..Len(users) : users[j].lockedUntil # Undefined}}
ResetDeadlines ==
    {users[i].resetTokenExpiry[1] :
        i \in {j \in 1..Len(users) : users[j].resetTokenExpiry # Undefined}}
SessionDeadlines == {sessions[i].expiresAt : i \in 1..Len(sessions)}

\* The instants around a deadline at which the outcome of its comparison
\* with the clock changes: `now < d` at d - 1 and d, `now > d` at d and d + 1
Before(deadlines) == deadlines \cup {d - 1 : d \in deadlines}
After(deadlines) == deadlines \cup {d + 1 : d \in deadlines}

\* Time passes, up to one of the given instants
Tick(instants) ==
    /\ ticks < MaxTicks
    /\ \E t \in instants :
          /\ t > now
          /\ now' = t
    /\ ticks' = ticks + 1
    /\ last' = [op |-> "tick", args |-> Void, result |-> Void]
    /\ UNCHANGED <<users, sessions, securityLogs, alerts, dataStore, uuids, hist, ui, calls>>

---------------------------------------------------------------------------
(* The system *)

Tokens == 1..MaxUuid

\* The storage keys of the per-user records of the study ids of the model
DataStudyIds == {"Ann", "Bob"}
DataKeys == {getUserDataKey(studyId) : studyId \in DataStudyIds}

\* Sample entries
SampleSession == [date |-> 0, duration |-> 25, type |-> "focus"]
SampleEmotion == [id |-> "e1", date |-> 0, mood |-> "happy", intensity |-> 5, beforeStudy |-> TRUE]
SampleTimetable == [id |-> "t1", subject |-> "Math", dayOfWeek |-> 1, startTime |-> "09:00",
                    endTime |-> "10:00", recurring |-> TRUE]
\* The `updates` the model passes to updateSecureUserData
SampleUpdates == {[mood |-> "happy"], [studyId |-> "Bob"]}

\* No tab is open: the operations are called directly
NoUI == [screen |-> "none"]

Init ==
    /\ now = 0
    /\ users = <<>>
    /\ sessions = <<>>
    /\ securityLogs = <<>>
    /\ alerts = 0
    /\ dataStore = [key \in DataKeys |-> Undefined]
    /\ uuids = 0
    /\ ticks = 0
    /\ last = [op |-> "init", args |-> Void, result |-> Void]
    /\ hist = [streak |-> <<>>, issued |-> {}, consumed |-> {}]
    /\ ui = NoUI
    /\ calls = NoCalls

\* One account: registration, logins of a known and an unknown user, lockout and the
\* password reset flow, with the clock moving across the lock and reset windows.
NextLockout ==
    \/ \E salt \in Salts : RegisterUser(EmailA, Pw1, "Ann", "Ann", salt)
    \/ \E input \in {EmailA, "nobody"}, password \in {Pw1, Pw2} :
          LoginUser(input, password)
    \/ \E email \in {EmailA, EmailB} : InitiatePasswordReset(email)
    \/ \E token \in Tokens, password \in {Pw2, PwWeak}, salt \in Salts :
          ResetPassword(EmailA, token, password, salt)
    \/ ResetPassword(EmailB, 1, Pw2, 1)
    \/ Tick(Before(LockDeadlines) \cup After(ResetDeadlines))

SpecLockout == Init /\ [][NextLockout]_vars

\* Two accounts and their sessions: logins, logout, session validation and the
\* access gate, with the clock moving across the session lifetime.
NextSessions ==
    \/ \E salt \in Salts : RegisterUser(EmailA, Pw1, "Ann", "Ann", salt)
    \/ \E salt \in Salts : RegisterUser(EmailB, Pw1, "Bob", "Bob", salt)
    \/ \E input \in {EmailA, EmailB} : LoginUser(input, Pw1)
    \/ \E token \in Tokens : GetCurrentUser(token)
    \/ \E token \in Tokens, studyId \in {"Ann", "Bob"} : HasDataAccess(token, studyId)
    \/ \E token \in Tokens : Logout(token)
    \/ Tick(After(SessionDeadlines))

SpecSessions == Init /\ [][NextSessions]_vars

\* Two accounts and their per-user data records: both users have registered
\* and logged in at time 0 (Ann holds token 1, Bob token 2); then every storage
\* operation with every token and every target study id, while the sessions
\* run out.
InitData ==
    /\ now = 0
    /\ users = <<NewUser("Ann", EmailA, hashPassword(Pw1, 1), "Ann"),
                 NewUser("Bob", EmailB, hashPassword(Pw1, 1), "Bob")>>
    /\ sessions = <<[studyId |-> "Ann", email |-> EmailA, sessionToken |-> 1,
                     expiresAt |-> SESSION_DURATION],
                    [studyId |-> "Bob", email |-> EmailB, sessionToken |-> 2,
                     expiresAt |-> SESSION_DURATION]>>
    /\ securityLogs = <<>>
    /\ alerts = 0
    /\ dataStore = [key \in DataKeys |-> Undefined]
    /\ uuids = 2
    /\ ticks = 0
    /\ last = [op |-> "init", args |-> Void, result |-> Void]
    /\ hist = [streak |-> <<0, 0>>, issued |-> {<<1, "Ann">>, <<2, "Bob">>}, consumed |-> {}]
    /\ ui = NoUI
    /\ calls = NoCalls

NextData ==
    \/ \E i \in 1..Len(users), token \in 1..(MaxUuid + 1) :
          SaveSecureUserData(createInitialUserData(users[i]), token)
    \/ \E studyId \in DataStudyIds, token \in 1..(MaxUuid + 1) :
          LoadSecureUserData(studyId, token)
    \/ \E studyId \in DataStudyIds, token \in 1..(MaxUuid + 1), updates \in SampleUpdates :
          UpdateSecureUserData(studyId, token, updates)
    \/ \E studyId \in DataStudyIds, token \in 1..(MaxUuid + 1) :
          AddStudySession(studyId, token, SampleSession)
    \/ \E studyId \in DataStudyIds, token \in 1..(MaxUuid + 1) :
          AddEmotionEntry(studyId, token, SampleEmotion)
    \/ \E studyId \in DataStudyIds, token \in 1..(MaxUuid + 1) :
          AddTimetableEntry(studyId, token, SampleTimetable)
    \/ \E studyId \in DataStudyIds, token \in 1..(MaxUuid + 1) : DeleteUserData(studyId, token)
    \/ Tick(After(SessionDeadlines))

SpecData == InitData /\ [][NextData]_vars

\* Registrations that collide: the same email in another case, a supplied
\* identifier that is taken, a generated identifier that is taken, and inputs
\* that fail validation; with logins and the reset flow of the first account.
RegisterInputs ==
    {[email |-> e, password |-> Pw1, preferredName |-> "Ann", customStudyId |-> id] :
        e \in {EmailA, EmailAUpper, EmailB}, id \in {"", "Ann", "STUDY-2"}}
    \cup {[email |-> EmailOther, password |-> Pw1, preferredName |-> "Ann", customStudyId |-> ""],
          [email |-> EmailB, password |-> PwWeak, preferredName |-> "Ann", customStudyId |-> "Ann"],
          [email |-> EmailB, password |-> Pw1, preferredName |-> "A", customStudyId |-> "Ann"]}

NextRegister ==
    \/ \E input \in RegisterInputs, salt \in Salts :
          RegisterUser(input.email, input.password, input.preferredName,
                       input.customStudyId, salt)
    \/ \E input \in {EmailA, EmailB} : LoginUser(input, Pw1)
    \/ InitiatePasswordReset(EmailA)
    \/ \E token \in Tokens, salt \in Salts : ResetPassword(EmailA, token, Pw1, salt)

SpecRegister == Init /\ [][NextRegister]_vars

\* One tab: Ann has registered and logged in at time 0 with token 1 and
\* App.handleLogin has stored her initial record and shows the dashboard; she
\* then uses the exam planner and the study timer while the session runs out
\* or is logged out from another tab.
FormInputs ==
    {[subject |-> "Math", date |-> 7 * MS_PER_DAY, time |-> "09:00", location |-> "", notes |-> ""],
     [subject |-> "Physics", date |-> 7 * MS_PER_DAY, time |-> "09:00", location |-> "", notes |-> ""]}

InitUI ==
    /\ now = 0
    /\ users = <<NewUser("Ann", EmailA, hashPassword(Pw1, 1), "Ann")>>
    /\ sessions = <<[studyId |-> "Ann", email |-> EmailA, sessionToken |-> 1,
                     expiresAt |-> SESSION_DURATION]>>
    /\ securityLogs = <<>>
    /\ alerts = 0
    /\ dataStore = [key \in DataKeys |->
                      IF key = getUserDataKey("Ann")
                      THEN Some(Encode(createInitialUserData(users[1])))
                      ELSE Undefined]
    /\ uuids = 1
    /\ ticks = 0
    /\ last = [op |-> "init", args |-> Void, result |-> Void]
    /\ hist = [streak |-> <<0>>, issued |-> {<<1, "Ann">>}, consumed |-> {}]
    /\ ui = [screen |-> "dashboard",
             userData |-> Some(createInitialUserData(users[1])),
             sessionToken |-> Some(1),
             planner |-> Undefined,
             timer |-> Undefined,
             completionMessages |-> 0]
    /\ calls = NoCalls

NextUI ==
    \/ \E screen \in {"planner", "timer"} : Navigate(screen)
    \/ HandleLogout
    \/ ShowAddForm
    \/ \E formData \in FormInputs : FillForm(formData)
    \/ HandleSubmit
    \/ \E i \in 1..MaxEntries : HandleEdit(i)
    \/ \E i \in 1..MaxEntries : HandleDelete(i)
    \/ ToggleTimer
    \/ ResetTimer
    \/ Countdown
    \/ TimerEffect
    \/ Logout(1)
    \/ Tick(After(SessionDeadlines))

SpecUI == InitUI /\ [][NextUI]_vars

---------------------------------------------------------------------------
(* Properties of the lockout guard and the reset flow (SpecLockout) *)

\* C1: the third consecutive failed login of a user locks the account until
\* 30 minutes later; while the clock is strictly before lockedUntil every
\* login of that user, also one with the correct password, is rejected as
\* locked; a login with the correct password at or after lockedUntil succeeds
\* and leaves failedAttempts = 0 and lockedUntil cleared.
C1_LockWindow ==
    [][\A i \in 1..Len(users) :
        LET u == users[i]
            v == users'[i]
            isLogin == last'.op = "loginUser" /\ last'.args.studyIdOrEmail \in {u.email, u.studyId}
            correct == last'.args.password = u.passwordHash.digest[2]
        IN  isLogin =>
              /\ (/\ ~last'.result.success
                  /\ last'.result.error = "InvalidPassword"
                  /\ v.failedAttempts = 3)
                 => v.lockedUntil = <<now + 30 * 60 * 1000>>
              /\ (/\ u.failedAttempts >= 3
                  /\ u.lockedUntil # <<>>
                  /\ now < u.lockedUntil[1])
                 => (~last'.result.success /\ last'.result.error = "AccountLocked")
              /\ (/\ u.lockedUntil # <<>>
                  /\ now >= u.lockedUntil[1]
                  /\ correct)
                 => (/\ last'.result.success
                     /\ v.failedAttempts = 0
                     /\ v.lockedUntil = <<>>)
      ]_vars

\* A login with the correct password has succeeded at or after the end of the
\* lock window of an account that was locked once and never reset.
C1_Witness ==
    /\ last.op = "loginUser"
    /\ last.result.success
    /\ alerts = 1
    /\ hist.consumed = {}
    /\ \E k \in 1..Len(securityLogs) :
          /\ securityLogs[k].event = "ACCOUNT_LOCKED"
          /\ now >= securityLogs[k].timestamp + 30 * 60 * 1000

\* C8: while a user is locked (lockedUntil set and the clock before it), a
\* login of that user returns the locked result whatever the password, and
\* the user store (failedAttempts, lockedUntil, lastLogin), the session
\* store, the security log and the alerts are left as they were.
C8_LockedAttemptChangesNothing ==
    [][\A i \in 1..Len(users) :
        LET u == users[i]
        IN  (/\ last'.op = "loginUser"
             /\ last'.args.studyIdOrEmail \in {u.email, u.studyId}
             /\ u.lockedUntil # <<>>
             /\ now < u.lockedUntil[1])
            => (/\ ~last'.result.success
                /\ "locked" \in DOMAIN last'.result
                /\ last'.result.locked
                /\ users' = users
                /\ sessions' = sessions
                /\ securityLogs' = securityLogs
                /\ alerts' = alerts)
      ]_vars

\* A login with the correct password has been rejected as locked.
C8_Witness ==
    /\ last.op = "loginUser"
    /\ ~last.result.success
    /\ last.result.error = "AccountLocked"
    /\ \E i \in 1..Len(users) :
          /\ last.args.studyIdOrEmail = users[i].email
          /\ last.args.password = users[i].passwordHash.digest[2]
          /\ users[i].failedAttempts = 3

\* C9: a user becomes locked only by a failed login that brings
\* failedAttempts to 3 or more, after at least 3 wrong passwords since the
\* last successful login; every such failed login locks for 30 minutes; a
\* failed login below the threshold leaves lockedUntil alone; a successful
\* login sets failedAttempts to 0 and clears lockedUntil.
C9_LockTransition ==
    [][\A i \in 1..Len(users) :
        LET u == users[i]
            v == users'[i]
            isLogin == last'.op = "loginUser" /\ last'.args.studyIdOrEmail \in {u.email, u.studyId}
            wrongPassword == /\ isLogin
                             /\ ~last'.result.success
                             /\ last'.result.error = "InvalidPassword"
            lockedBefore == u.lockedUntil # <<>> /\ now < u.lockedUntil[1]
            lockedAfter == v.lockedUntil # <<>> /\ now' < v.lockedUntil[1]
        IN  /\ (~lockedBefore /\ lockedAfter)
               => (wrongPassword /\ v.failedAttempts >= 3 /\ hist'.streak[i] >= 3)
            /\ (wrongPassword /\ v.failedAttempts >= 3)
               => v.lockedUntil = <<now + 30 * 60 * 1000>>
            /\ (wrongPassword /\ v.failedAttempts < 3)
               => (v.lockedUntil = u.lockedUntil /\ v.failedAttempts = u.failedAttempts + 1)
            /\ (isLogin /\ last'.result.success)
               => (v.failedAttempts = 0 /\ v.lockedUntil = <<>>)
      ]_vars

\* The third wrong password since an earlier successful login has locked the
\* account.
C9_Witness ==
    /\ last.op = "loginUser"
    /\ ~last.result.success
    /\ last.result.error = "InvalidPassword"
    /\ hist.issued # {}
    /\ \E i \in 1..Len(users) :
          /\ last.args.studyIdOrEmail = users[i].email
          /\ users[i].failedAttempts = 3
          /\ hist.streak[i] = 3
          /\ users[i].lockedUntil = <<now + 30 * 60 * 1000>>

\* C10: a successful resetPassword sets failedAttempts to 0 and clears
\* lockedUntil; the login that follows it succeeds with the new password, also
\* inside the lock window, and is treated as a wrong password with any other.
C10_ResetUnlocks ==
    [][\A i \in 1..Len(users) :
        LET u == users[i]
            v == users'[i]
            resets == /\ last'.op = "resetPassword"
                      /\ last'.args.email = u.email
                      /\ last'.result.success
            afterReset == /\ last.op = "resetPassword"
                          /\ last.args.email = u.email
                          /\ last.result.success
            isLogin == last'.op = "loginUser" /\ last'.args.studyIdOrEmail \in {u.email, u.studyId}
        IN  /\ resets => (v.failedAttempts = 0 /\ v.lockedUntil = <<>>)
            /\ (afterReset /\ isLogin)
               => IF last'.args.password = last.args.newPassword
                  THEN last'.result.success
                  ELSE ~last'.result.success /\ last'.result.error = "InvalidPassword"
      ]_vars

\* A login has succeeded less than 30 minutes after the account was locked.
C10_Witness ==
    /\ last.op = "loginUser"
    /\ last.result.success
    /\ hist.consumed # {}
    /\ \E k \in 1..Len(securityLogs) :
          /\ securityLogs[k].event = "ACCOUNT_LOCKED"
          /\ now < securityLogs[k].timestamp + 30 * 60 * 1000

C7_ResetRequiresValidTicket ==
    [][/\ (last'.op = "resetPassword" /\ validatePassword(last'.args.newPassword).isValid)
          => LET ok == \E i \in 1..Len(users) :
                          /\ users[i].email = last'.args.email
                          /\ users[i].resetToken = <<last'.args.resetToken>>
                          /\ users[i].resetTokenExpiry # <<>>
                          /\ now <= users[i].resetTokenExpiry[1]
             IN  /\ last'.result.success => ok
                 /\ ~ok => (/\ ~last'.result.success
                            /\ last'.result.error = "InvalidOrExpiredToken"
                            /\ users' = users)
       /\ \A i \in 1..Len(users) :
             (last'.op = "initiatePasswordReset" /\ last'.args.email = users[i].email)
             => (/\ users'[i].resetToken # <<>>
                 /\ users'[i].resetTokenExpiry = <<now + 60 * 60 * 1000>>)
      ]_vars

\* A resetPassword with the stored token and a valid password has been
\* refused because the ticket had expired.
C7_Witness ==
    /\ last.op = "resetPassword"
    /\ ~last.result.success
    /\ last.result.error = "InvalidOrExpiredToken"
    /\ \E i \in 1..Len(users) :
          /\ users[i].email = last.args.email
          /\ users[i].resetToken = <<last.args.resetToken>>
          /\ now > users[i].resetTokenExpiry[1]

---------------------------------------------------------------------------
(* Properties of the session registry and the access gate (SpecSessions) *)

\* C2: hasDataAccess(token, targetId) is true exactly when the session store
\* holds a session with that token whose expiry is not past and whose studyId
\* is targetId; so it is true only for the user the token was issued to.
C2_AccessGate ==
    [][last'.op = "hasDataAccess" =>
        /\ last'.result.granted <=>
              \E k \in 1..Len(sessions) :
                  /\ sessions[k].sessionToken = last'.args.sessionToken
                  /\ now <= sessions[k].expiresAt
                  /\ sessions[k].studyId = last'.args.studyId
        /\ last'.result.granted
              => <<last'.args.sessionToken, last'.args.studyId>> \in hist.issued
      ]_vars

\* hasDataAccess has returned false for a live token of one user and the
\* study id of another registered user.
C2_Witness ==
    /\ last.op = "hasDataAccess"
    /\ ~last.result.granted
    /\ \E k \in 1..Len(sessions) :
          /\ sessions[k].sessionToken = last.args.sessionToken
          /\ now <= sessions[k].expiresAt
          /\ sessions[k].studyId # last.args.studyId
    /\ \E i \in 1..Len(users) : users[i].studyId = last.args.studyId

\* C4: the session store never holds two sessions of one studyId; a
\* successful login leaves exactly one session of the user, the new one, and
\* keeps the sessions of the other users; validateSession on a token that a
\* later login of the same user has replaced returns null.
C4_SingleSessionPerUser ==
    /\ [](\A i, j \in 1..Len(sessions) :
            i # j => sessions[i].studyId # sessions[j].studyId)
    /\ [][/\ (last'.op = "loginUser" /\ last'.result.success)
             => LET id == last'.result.user.studyId
                    token == last'.result.sessionToken
                IN  /\ \E k \in 1..Len(sessions') :
                          /\ sessions'[k].studyId = id
                          /\ sessions'[k].sessionToken = token
                    /\ \A k \in 1..Len(sessions') :
                          sessions'[k].studyId = id => sessions'[k].sessionToken = token
                    /\ \A k \in 1..Len(sessions) :
                          sessions[k].studyId # id
                          => \E m \in 1..Len(sessions') : sessions'[m] = sessions[k]
          /\ (/\ last'.op = "validateSession"
              /\ \E old \in hist.issued, new \in hist.issued :
                    /\ old[1] = last'.args.sessionToken
                    /\ new[2] = old[2]
                    /\ new[1] > old[1])
             => last'.result.found = <<>>
         ]_vars

\* validateSession has returned null for the first token of a user who logged
\* in a second time, before any session could expire and while the second
\* session is in the store.
C4_Witness ==
    /\ last.op = "validateSession"
    /\ last.result.found = <<>>
    /\ ticks = 0
    /\ \E old \in hist.issued, new \in hist.issued :
          /\ old[1] = last.args.sessionToken
          /\ new[2] = old[2]
          /\ new[1] > old[1]
          /\ \E k \in 1..Len(sessions) : sessions[k].sessionToken = new[1]

\* C5: validateSession(token) returns null and leaves the store alone when no
\* session has the token; removes exactly that session and returns null when
\* the clock is past its expiry; otherwise returns the user record that owns
\* the session and leaves the store alone.  A successful login stores a
\* session of the user that expires 24 hours later.
C5_ValidateSession ==
    [][/\ last'.op = "validateSession"
          => LET found == {k \in 1..Len(sessions) : sessions[k].sessionToken = last'.args.sessionToken}
             IN  IF found = {}
                 THEN last'.result.found = <<>> /\ sessions' = sessions
                 ELSE \A k \in found :
                        IF now > sessions[k].expiresAt
                        THEN /\ last'.result.found = <<>>
                             /\ sessions' = SubSeq(sessions, 1, k - 1)
                                               \o SubSeq(sessions, k + 1, Len(sessions))
                        ELSE /\ last'.result.found # <<>>
                             /\ last'.result.found[1].studyId = sessions[k].studyId
                             /\ <<last'.args.sessionToken, sessions[k].studyId>> \in hist.issued
                             /\ \E i \in 1..Len(users) : users[i] = last'.result.found[1]
                             /\ sessions' = sessions
       /\ (last'.op = "loginUser" /\ last'.result.success)
          => \E k \in 1..Len(sessions') :
                /\ sessions'[k].sessionToken = last'.result.sessionToken
                /\ sessions'[k].studyId = last'.result.user.studyId
                /\ sessions'[k].expiresAt = now + 24 * 60 * 60 * 1000
      ]_vars

\* validateSession has returned the user for a token exactly at its expiry,
\* 24 hours after the login.
C5_Witness ==
    /\ last.op = "validateSession"
    /\ last.result.found # <<>>
    /\ \E k \in 1..Len(sessions) :
          /\ sessions[k].sessionToken = last.args.sessionToken
          /\ now = sessions[k].expiresAt
          /\ now >= 24 * 60 * 60 * 1000

---------------------------------------------------------------------------
(* Properties of the per-user storage (SpecData) *)

\* C3: a storage operation whose token does not give access to the target
\* studyId returns false (null for load and update) and leaves every per-user
\* record as it was; a record changes only in a call whose token gives access
\* to the studyId of that record, and load returns a record only to such a
\* call.
C3_StorageIsGated ==
    [][last'.op \in {"saveSecureUserData", "loadSecureUserData", "updateSecureUserData",
                     "addStudySession", "addEmotionEntry", "addTimetableEntry",
                     "deleteUserData"} =>
        LET Access(studyId) ==
                \E k \in 1..Len(sessions) :
                    /\ sessions[k].sessionToken = last'.args.sessionToken
                    /\ now <= sessions[k].expiresAt
                    /\ sessions[k].studyId = studyId
            returnsData == last'.op \in {"loadSecureUserData", "updateSecureUserData"}
        IN  /\ ~Access(last'.args.studyId)
               => /\ IF returnsData THEN last'.result.data = <<>> ELSE ~last'.result.saved
                  /\ dataStore' = dataStore
            /\ \A studyId \in DataStudyIds :
                  dataStore'["pomogrow_data_" \o studyId] # dataStore["pomogrow_data_" \o studyId]
                  => Access(studyId)
            /\ (returnsData /\ last'.result.data # <<>>)
               => /\ Access(last'.args.studyId)
                  /\ last'.result.data[1].studyId = last'.args.studyId
      ]_vars

\* A call with the live token of one user and the study id of another user,
\* whose record exists, has been refused.
C3_Witness ==
    /\ last.op \in {"saveSecureUserData", "updateSecureUserData", "addStudySession",
                    "addEmotionEntry", "addTimetableEntry", "deleteUserData"}
    /\ IF last.op = "updateSecureUserData" THEN last.result.data = <<>> ELSE ~last.result.saved
    /\ dataStore["pomogrow_data_" \o last.args.studyId] # <<>>
    /\ \E k \in 1..Len(sessions) :
          /\ sessions[k].sessionToken = last.args.sessionToken
          /\ now <= sessions[k].expiresAt
          /\ sessions[k].studyId # last.args.studyId

---------------------------------------------------------------------------
(* Properties of the results of loginUser and initiatePasswordReset (SpecLockout) *)

\* C11: every failed loginUser returns the one generic invalid-credentials
\* result, the result of a login of an identifier no user has, so that the
\* result of a failed login is the same whether or not the account exists.
C11_GenericLoginFailure ==
    [][(last'.op = "loginUser" /\ ~last'.result.success)
        => last'.result = [success |-> FALSE, error |-> "InvalidCredentials"]
      ]_vars

\* C12: initiatePasswordReset of a well-formed Gmail address returns
\* {success: true} and nothing else, whether or not a user has the email; when
\* a user has it, that user's record, and no other, gets a reset token not
\* used before and the expiry now + 1 hour; when none has it the user store
\* is unchanged.
C12_ResetRequestHidesAccounts ==
    [][(last'.op = "initiatePasswordReset" /\ last'.args.email \in {"a@gmail.com", "b@gmail.com"})
        => /\ last'.result = [success |-> TRUE]
           /\ Len(users') = Len(users)
           /\ \A i \in 1..Len(users) :
                IF users[i].email = last'.args.email
                THEN /\ users'[i].resetToken # <<>>
                     /\ users'[i].resetToken # users[i].resetToken
                     /\ <<users[i].email, users'[i].resetToken[1]>> \notin hist.consumed
                     /\ users'[i].resetTokenExpiry = <<now + 60 * 60 * 1000>>
                     /\ users'[i] = [users[i] EXCEPT !.resetToken = users'[i].resetToken,
                                                     !.resetTokenExpiry = users'[i].resetTokenExpiry]
                ELSE users'[i] = users[i]
      ]_vars

\* A reset request for an email that no user has was answered with
\* {success: true}, while the registered user holds a ticket from a request of
\* their own.
C12_Witness ==
    /\ last.op = "initiatePasswordReset"
    /\ last.args.email = "b@gmail.com"
    /\ last.result = [success |-> TRUE]
    /\ Len(users) = 1
    /\ users[1].email = "a@gmail.com"
    /\ users[1].resetToken # <<>>

---------------------------------------------------------------------------
(* Properties of the tab: exam planner and study timer (SpecUI) *)

\* C13: when the saveSecureUserData call of handleSubmit, handleDelete or
\* handleTimerComplete returns false, the handler aborts and the tab shows the
\* failure: the state of the tab is not left exactly as it was (no silent
\* end), and the timer does not go on as after a saved focus session (no
\* pomodoro counted, no break started, no completion message).
C13_RefusedSaveIsSurfaced ==
    [][(/\ last'.op \in {"handleSubmit", "handleDelete", "handleTimerComplete"}
        /\ "saved" \in DOMAIN last'.result
        /\ ~last'.result.saved)
       => /\ ui' # ui
          /\ ui'.completionMessages = ui.completionMessages
          /\ last'.op = "handleTimerComplete"
             => /\ ui'.timer[1].pomodoroCount = ui.timer[1].pomodoroCount
                /\ ui'.timer[1].isBreak = ui.timer[1].isBreak
      ]_vars

---------------------------------------------------------------------------
(* Properties of registration (SpecRegister) *)

\* C14: in every state reached by registerUser, loginUser,
\* initiatePasswordReset and resetPassword calls made one after another, no
\* two user records have the same studyId and no two have the same email.
C14_UniqueUsers ==
    \A i, j \in 1..Len(users) :
        i # j => (users[i].studyId # users[j].studyId /\ users[i].email # users[j].email)

\* Two users are registered, a login of an identifier that was not registered
\* has been refused, and a user has logged in and has reset the password.
C14_Witness ==
    /\ Len(users) = 2
    /\ hist.issued # {}
    /\ hist.consumed # {}
    /\ \E k \in 1..Len(securityLogs) : securityLogs[k].event = "INVALID_CREDENTIALS"

\* C15: a registerUser call whose password and name pass validation fails with
\* the duplicate-email result when its email, lower-cased, is the email of a
\* stored user, whatever the identifier; otherwise it fails with the
\* duplicate-identifier result when its identifier, supplied or generated, is
\* the studyId of a stored user; and every failed registerUser leaves the
\* user store unchanged.
C15_DuplicateRegistration ==
    [][last'.op = "registerUser" =>
        LET call == last'.args
            valid == /\ validatePassword(call.password).isValid
                     /\ call.preferredName \notin {"", "A"}
            lowered == IF call.email = "A@gmail.com" THEN "a@gmail.com" ELSE call.email
            emailStored == \E i \in 1..Len(users) : users[i].email = lowered
            identifier == IF call.customStudyId # "" THEN call.customStudyId
                          ELSE "STUDY-" \o ToString(uuids + 1)
            identifierStored == \E i \in 1..Len(users) : users[i].studyId = identifier
        IN  /\ (valid /\ emailStored)
               => (~last'.result.success /\ last'.result.error = "DuplicateEmail")
            /\ (valid /\ lowered \in {"a@gmail.com", "b@gmail.com"}
                      /\ ~emailStored /\ identifierStored)
               => (~last'.result.success /\ last'.result.error = "DuplicateIdentifier")
            /\ ~last'.result.success => users' = users
            /\ last'.result.success
               => (/\ ~emailStored
                   /\ ~identifierStored
                   /\ users' = Append(users, users'[Len(users')])
                   /\ users'[Len(users')].email = lowered
                   /\ users'[Len(users')].studyId = identifier)
      ]_vars

\* A registration with the stored email in upper case and an identifier that
\* is not taken has been refused as a duplicate email.
C15_Witness ==
    /\ last.op = "registerUser"
    /\ last.args.email = "A@gmail.com"
    /\ last.args.customStudyId = "STUDY-2"
    /\ ~last.result.success
    /\ last.result.error = "DuplicateEmail"
    /\ \A i \in 1..Len(users) : users[i].studyId # "STUDY-2"
    /\ \E i \in 1..Len(users) : users[i].email = "a@gmail.com"

---------------------------------------------------------------------------
(* Further properties of the session registry (SpecSessions) *)

\* C16: logout(token) removes the session with that token and keeps every
\* other session, in order; with a token that no session has it leaves the
\* store as it is; it changes nothing else; a second logout of the same token
\* changes nothing, and validateSession of the token right after its logout
\* returns null.
C16_Logout ==
    [][/\ last'.op = "logout" =>
            LET t == last'.args.sessionToken
                kept == {k \in 1..Len(sessions) : sessions[k].sessionToken # t}
            IN  /\ Len(sessions') = Cardinality(kept)
                /\ \A k \in 1..Len(sessions') : sessions'[k].sessionToken # t
                /\ \A k \in kept :
                      sessions'[Cardinality({m \in kept : m <= k})] = sessions[k]
                /\ kept = 1..Len(sessions) => sessions' = sessions
                /\ users' = users /\ securityLogs' = securityLogs /\ dataStore' = dataStore
                /\ last'.result = [void |-> TRUE]
       /\ (/\ last.op = "logout"
           /\ last'.op = "logout"
           /\ last'.args.sessionToken = last.args.sessionToken)
          => sessions' = sessions
       /\ (/\ last.op = "logout"
           /\ last'.op = "validateSession"
           /\ last'.args.sessionToken = last.args.sessionToken)
          => last'.result.found = <<>>
      ]_vars

\* A logout of the token issued to one user has left the live session of the
\* other user, and only it, in the store.
C16_Witness ==
    /\ last.op = "logout"
    /\ ticks = 0
    /\ Len(sessions) = 1
    /\ sessions[1].sessionToken # last.args.sessionToken
    /\ \E issue \in hist.issued :
          /\ issue[1] = last.args.sessionToken
          /\ issue[2] # sessions[1].studyId


---------------------------------------------------------------------------
(* Unreadable storage (SpecStorage) *)

\* One account and its logins while the stored security log may stop being JSON
NextStorage ==
    \/ \E salt \in Salts : RegisterUser(EmailA, Pw1, "Ann", "Ann", salt)
    \/ \E input \in {EmailA, "nobody"}, password \in {Pw1, Pw2} :
          LoginUser(input, password)
    \/ CorruptSecurityLog
    \/ Tick(Before(LockDeadlines))

SpecStorage == Init /\ [][NextStorage]_vars

\* C17: when the stored security log cannot be parsed, a login treats the log
\* as empty and completes with its normal outcome: the login of an unknown
\* user answers "invalid credentials" and leaves a log of that one event, and
\* a wrong password for an unlocked account is counted, locks the account at
\* the threshold and answers "invalid password".
C17_UnreadableLogDegrades ==
    [][(last'.op = "loginUser" /\ securityLogs = Unparsable) =>
          LET input == last'.args.studyIdOrEmail
              i == LoginIndex(input)
          IN  /\ i = 0 =>
                    /\ last'.result.error = "InvalidCredentials"
                    /\ securityLogs' = logSecurityEvent(<<>>, "INVALID_CREDENTIALS",
                                                        sanitizeInput(toLowerCase(input)))
              /\ ( /\ i # 0
                   /\ ~IsLocked(users[i])
                   /\ ~verifyPassword(last'.args.password, users[i].passwordHash) ) =>
                    /\ last'.result.error = "InvalidPassword"
                    /\ users'[i].failedAttempts = users[i].failedAttempts + 1
                    /\ users[i].failedAttempts + 1 >= MAX_FAILED_ATTEMPTS =>
                          users'[i].lockedUntil = Some(now + LOCK_DURATION)
      ]_vars


---------------------------------------------------------------------------
(* Calls in two tabs (SpecAsync) *)

\* Two tabs register, log in and reset a password; each call is suspended at
\* its await and resumed later, and a reset request runs in one step.
NextAsync ==
    \/ \E tab \in Tabs : AwaitRegister(tab, EmailA, Pw1, "Ann", "Ann")
    \/ AwaitRegister("tab2", EmailB, Pw1, "Bob", "Bob")
    \/ \E tab \in Tabs : ResumeRegister(tab, 1)
    \/ \E tab \in Tabs, password \in {Pw1, Pw2} : AwaitLogin(tab, EmailA, password)
    \/ \E tab \in Tabs : ResumeLogin(tab)
    \/ InitiatePasswordReset(EmailA)
    \/ \E tab \in Tabs, token \in Tokens : AwaitReset(tab, EmailA, token, Pw2)
    \/ \E tab \in Tabs, salt \in Salts : ResumeReset(tab, salt)

SpecAsync == Init /\ [][NextAsync]_vars

---------------------------------------------------------------------------
(* The record of lock transitions (SpecLockout) *)

\* The ACCOUNT_LOCKED entries of a log, in order
LockedEntries(logs) == SelectSeq(logs, LAMBDA entry : entry.event = "ACCOUNT_LOCKED")

\* C19: a step in which a user goes from not locked to locked appends exactly
\* one ACCOUNT_LOCKED entry with the user's email to the security log and
\* sends one security alert; a login in which no user becomes locked (success,
\* wrong password below the threshold, rejection while locked, unknown user)
\* leaves the ACCOUNT_LOCKED entries of the log as they were.
C19_LockIsLoggedOnce ==
    [][LET becomesLocked == {i \in 1..Len(users) :
                                ~IsLocked(users[i]) /\ IsLocked(users[i])'}
       IN  /\ \A i \in becomesLocked :
                 /\ last'.op = "loginUser"
                 /\ securityLogs' = Append(securityLogs,
                                           [timestamp |-> now, event |-> "ACCOUNT_LOCKED",
                                            identifier |-> users[i].email])
                 /\ alerts' = alerts + 1
           /\ (last'.op = "loginUser" /\ becomesLocked = {}) =>
                 LockedEntries(securityLogs') = LockedEntries(securityLogs)
      ]_vars

\* The third wrong password has locked the account of a@gmail.com: the log
\* holds its one ACCOUNT_LOCKED entry and one alert has been sent.
C19_Witness ==
    /\ last.op = "loginUser"
    /\ ~last.result.success
    /\ last.result.error = "InvalidPassword"
    /\ last.result.attemptsRemaining = 0
    /\ Len(users) = 1
    /\ IsLocked(users[1])
    /\ LockedEntries(securityLogs) =
           <<[timestamp |-> now, event |-> "ACCOUNT_LOCKED", identifier |-> EmailA]>>
    /\ alerts = 1


---------------------------------------------------------------------------
(* The security log at its cap (SpecLog) *)

\* The log after n events, one recorded at each of the instants 1..n
LogOf(n) ==
    [k \in 1..n |-> [timestamp |-> k, event |-> "INVALID_CREDENTIALS", identifier |-> "nobody"]]

\* The log is empty, one below its cap, or at its cap
InitLog ==
    /\ \E n \in {0, MAX_SECURITY_LOGS - 1, MAX_SECURITY_LOGS} :
          /\ securityLogs = LogOf(n)
          /\ now = n
    /\ users = <<>>
    /\ sessions = <<>>
    /\ alerts = 0
    /\ dataStore = [key \in DataKeys |-> Undefined]
    /\ uuids = 0
    /\ ticks = 0
    /\ last = [op |-> "init", args |-> Void, result |-> Void]
    /\ hist = [streak |-> <<>>, issued |-> {}, consumed |-> {}]
    /\ ui = NoUI
    /\ calls = NoCalls

NextLog ==
    \/ \E event \in {"INVALID_CREDENTIALS", "ACCOUNT_LOCKED"}, identifier \in {EmailA, "nobody"} :
          LogSecurityEvent(event, identifier)
    \/ Tick({now + 1})

SpecLog == InitLog /\ [][NextLog]_vars

\* C20: after a call of logSecurityEvent the log holds at most 100 entries:
\* the entries it held before followed by the new one when that makes 100 or
\* fewer, and otherwise the last 100 of them in recording order, those at
\* the front (the oldest) having been removed.
C20_LogKeepsLast100 ==
    [][last'.op = "logSecurityEvent" =>
          LET entry == [timestamp |-> now, event |-> last'.args.event,
                        identifier |-> last'.args.identifier]
              all == Append(securityLogs, entry)
              n == Len(securityLogs')
          IN  /\ n <= 100
              /\ n = IF Len(all) > 100 THEN 100 ELSE Len(all)
              /\ \A k \in 1..n : securityLogs'[k] = all[Len(all) - n + k]
              /\ \A k \in 1..(n - 1) : securityLogs'[k].timestamp < securityLogs'[k + 1].timestamp
      ]_vars

\* A log at its cap has received two more events: the two oldest entries are
\* gone and the newest entry is the last one.
C20_Witness ==
    /\ last.op = "logSecurityEvent"
    /\ Len(securityLogs) = 100
    /\ securityLogs[1].timestamp = 3
    /\ securityLogs[100].timestamp = now
    /\ securityLogs[100].event = "ACCOUNT_LOCKED"
    /\ securityLogs[99].timestamp = now - 1

---------------------------------------------------------------------------
(* The password policy (SpecPassword) *)

\* One character of each class the rules test, and one of no class
PasswordChars == {"A", "a", "1", "!", "_"}

\* The passwords given to validatePassword: up to MaxCoreLen characters,
\* alone or followed by 3 or 4 characters of no class, so that the character
\* rules are kept and violated in every combination at lengths 7 and 8
PasswordInputs ==
    {core \o [k \in 1..n |-> "_"] :
        core \in UNION {[1..len -> PasswordChars] : len \in 0..MaxCoreLen},
        n \in {0, 3, 4}}

\* Nothing is stored; one password is handed in
InitPassword ==
    /\ now = 0
    /\ users = <<>>
    /\ sessions = <<>>
    /\ securityLogs = <<>>
    /\ alerts = 0
    /\ dataStore = [key \in DataKeys |-> Undefined]
    /\ uuids = 0
    /\ ticks = 0
    /\ \E password \in PasswordInputs :
          last = [op |-> "input", args |-> [password |-> password], result |-> Void]
    /\ hist = [streak |-> <<>>, issued |-> {}, consumed |-> {}]
    /\ ui = NoUI
    /\ calls = NoCalls

NextPassword == ValidatePassword

SpecPassword == InitPassword /\ [][NextPassword]_vars

\* The number of entries of a list equal to a given one
Occurrences(list, entry) == Cardinality({k \in 1..Len(list) : list[k] = entry})

\* C21: the error list validatePassword returns holds exactly one entry for
\* each of the five rules the password violates (fewer than 8 characters, no
\* upper-case letter, no lower-case letter, no digit, no symbol of the
\* punctuation set) and none for a rule it keeps; isValid is true exactly
\* when the list is empty.
C21_AllViolationsReported ==
    last.op = "validatePassword" =>
        LET password == last.args.password
            errors == last.result.errors
            Has(chars) == \E k \in 1..Len(password) : password[k] \in chars
            violated == [length |-> Len(password) < 8,
                         uppercase |-> ~Has({"A"}),
                         lowercase |-> ~Has({"a"}),
                         number |-> ~Has({"1"}),
                         special |-> ~Has({"!"})]
        IN  /\ \A rule \in DOMAIN violated :
                  Occurrences(errors, rule) = IF violated[rule] THEN 1 ELSE 0
            /\ Len(errors) = Cardinality({rule \in DOMAIN violated : violated[rule]})
            /\ last.result.isValid <=> Len(errors) = 0

\* A password of 8 characters with a lower-case letter and a digit but no
\* upper-case letter and no symbol: two rules are reported, not one.
C21_Witness ==
    /\ last.op = "validatePassword"
    /\ Len(last.args.password) = 8
    /\ last.result.errors = <<"uppercase", "special">>
    /\ ~last.result.isValid


---------------------------------------------------------------------------
(* The study timer and its settings (SpecTimer) *)

\* The values typed into the three inputs of the settings panel
FocusSettings == {25, 0, -1}
ShortBreakSettings == {5, 0}
LongBreakSettings == {15, 0}

\* Ann is logged in in one tab, opens the study timer and uses its buttons and
\* its settings panel while the countdown runs
NextTimer ==
    \/ Navigate("timer")
    \/ ToggleTimer
    \/ ResetTimer
    \/ \E value \in FocusSettings : SetFocusTime(value)
    \/ \E value \in ShortBreakSettings : SetShortBreakTime(value)
    \/ \E value \in LongBreakSettings : SetLongBreakTime(value)
    \/ Countdown
    \/ TimerEffect

SpecTimer == InitUI /\ [][NextTimer]_vars

\* C22: when a running focus countdown has reached 0, handleTimerComplete
\* stops the timer and enters a break of the long-break setting if the number
\* of focus sessions completed since the last reset is a multiple of 4 and of
\* the short-break setting otherwise; when a running break countdown has
\* reached 0 it stops the timer and enters focus with timeLeft = focus
\* setting * 60; in both cases nothing further happens until the user
\* presses a button (no completion is pending).
C22_PhasesAlternate ==
    [][(last.op = "countdown" /\ last'.op = "handleTimerComplete") =>
          LET timer == ui.timer[1]
              after == ui'.timer[1]
          IN  /\ ~after.isActive
              /\ ~timer.isBreak =>
                    /\ after.isBreak
                    /\ after.pomodoroCount = timer.pomodoroCount + 1
                    /\ after.timeLeft = 60 * (IF after.pomodoroCount % 4 = 0
                                              THEN timer.longBreakTime
                                              ELSE timer.shortBreakTime)
              /\ timer.isBreak =>
                    /\ ~after.isBreak
                    /\ after.timeLeft = 60 * timer.focusTime
              /\ ~after.effectDue
      ]_vars

\* C28: the pomodoro count of the timer and the counters of the user's record
\* grow only in the step in which handleTimerComplete ends a focus countdown
\* that was running and has just reached 0; no other step (reset, pause,
\* resume, the end of a break, a change of a setting) credits a pomodoro; and
\* timeLeft is never negative.
C28_CreditOnlyAfterCountdown ==
    [][(ui.screen = "timer" /\ ui'.screen = "timer") =>
          LET timer == ui.timer[1]
              after == ui'.timer[1]
              credited == \/ after.pomodoroCount > timer.pomodoroCount
                          \/ after.userData.pomodorosCompleted > timer.userData.pomodorosCompleted
                          \/ after.userData.trees > timer.userData.trees
                          \/ Len(after.userData.studySessions) > Len(timer.userData.studySessions)
          IN  /\ credited =>
                    /\ last.op = "countdown"
                    /\ last'.op = "handleTimerComplete"
                    /\ ~timer.isBreak
                    /\ after.pomodoroCount = timer.pomodoroCount + 1
                    /\ after.userData.pomodorosCompleted = timer.userData.pomodorosCompleted + 1
                    /\ after.userData.trees = timer.userData.trees + 1
                    /\ Len(after.userData.studySessions) = Len(timer.userData.studySessions) + 1
              /\ after.timeLeft >= 0
      ]_vars

---------------------------------------------------------------------------
(* The persisted record in one tab (SpecApp) *)

\* Ann uses the application in one tab: the planner, the timer, logout and
\* login again
NextApp ==
    \/ \E screen \in {"planner", "timer"} : Navigate(screen)
    \/ HandleLogout
    \/ HandleLogin
    \/ ShowAddForm
    \/ \E formData \in FormInputs : FillForm(formData)
    \/ HandleSubmit
    \/ \E i \in 1..MaxEntries : HandleEdit(i)
    \/ \E i \in 1..MaxEntries : HandleDelete(i)
    \/ ToggleTimer
    \/ ResetTimer
    \/ Countdown
    \/ TimerEffect

SpecApp == InitUI /\ [][NextApp]_vars

\* The record of Ann in the data store
PersistedRecord == Decode(dataStore[getUserDataKey("Ann")][1])

FocusSessions(userData) ==
    Cardinality({i \in 1..Len(userData.studySessions) :
                    userData.studySessions[i].type = "focus"})

\* C29: in every state the persisted record has trees = pomodorosCompleted =
\* the number of its focus sessions and holds no badge id twice, and no step
\* lowers pomodorosCompleted, trees or the number of focus sessions.
C29_PersistedRecordConsistent ==
    /\ [](LET record == PersistedRecord
          IN  /\ record.trees = record.pomodorosCompleted
              /\ record.pomodorosCompleted = FocusSessions(record)
              /\ \A i, j \in 1..Len(record.badges) :
                    record.badges[i].id = record.badges[j].id => i = j)
    /\ [][/\ PersistedRecord'.pomodorosCompleted >= PersistedRecord.pomodorosCompleted
          /\ PersistedRecord'.trees >= PersistedRecord.trees
          /\ FocusSessions(PersistedRecord') >= FocusSessions(PersistedRecord)]_vars

\* Ann has completed two focus sessions, logged out and in again, and the
\* record loaded under the new session holds the two sessions and her badges
C29_Witness ==
    /\ PersistedRecord.pomodorosCompleted = 2
    /\ Len(PersistedRecord.badges) >= 1
    /\ ui.sessionToken = Some(2)
    /\ ui.userData = Some(PersistedRecord)

---------------------------------------------------------------------------
(* Logins and the session store (SpecLockout) *)

SessionsWithToken(store, sessionToken) ==
    {k \in 1..Len(store) : store[k].sessionToken = sessionToken}

\* C30: a loginUser that fails (unknown identifier, locked account, wrong
\* password) leaves the session store as it was; a loginUser that succeeds
\* leaves the sessions of the other users as they were and adds exactly one
\* session, with a fresh token, owned by the matched user, and
\* validateSession of that token returns that user at once.
C30_LoginAndSessions ==
    [][last'.op = "loginUser" =>
          IF ~last'.result.success
          THEN sessions' = sessions
          ELSE \A token \in {t \in Tokens : t = last'.result.sessionToken} :
               LET i == LoginIndex(last'.args.studyIdOrEmail)
               IN  /\ token = uuidv4
                   /\ SessionsWithToken(sessions, token) = {}
                   /\ Cardinality(SessionsWithToken(sessions', token)) = 1
                   /\ Len(sessions') =
                         Len(SelectSeq(sessions, LAMBDA x : x.studyId # users[i].studyId)) + 1
                   /\ SelectSeq(sessions', LAMBDA x : x.sessionToken # token) =
                         SelectSeq(sessions, LAMBDA x : x.studyId # users[i].studyId)
                   /\ \A k \in SessionsWithToken(sessions', token) :
                         /\ sessions'[k].studyId = users[i].studyId
                         /\ sessions'[k].email = users[i].email
                   /\ validateSession(token)' = Some(users'[i])
                   /\ last'.result.user = users'[i]
      ]_vars

\* Ann has logged in a second time, after a failed attempt: her first session
\* is gone and token 2 is her only session
C30_Witness ==
    /\ last.op = "loginUser"
    /\ last.result.success
    /\ last.result.sessionToken = 2
    /\ <<1, "Ann">> \in hist.issued
    /\ Len(sessions) = 1
    /\ sessions[1].sessionToken = 2

\* The users whose lock window has run out
LockExpired(user) == user.lockedUntil # Undefined /\ ~IsLocked(user)

\* C23: the end of the lock window does not reset the failure counter: a
\* record with a lockedUntil, also one in the past, still has failedAttempts
\* >= 3; the next loginUser of that user with a wrong password counts one more
\* failure and locks the account again until 30 minutes after that login;
\* one with the correct password succeeds.
C23_ExpiredLockKeepsCounter ==
    /\ [](\A i \in 1..Len(users) :
             users[i].lockedUntil # Undefined =>
                users[i].failedAttempts >= MAX_FAILED_ATTEMPTS)
    /\ [][\A i \in 1..Len(users) :
             (/\ last'.op = "loginUser"
              /\ LoginIndex(last'.args.studyIdOrEmail) = i
              /\ LockExpired(users[i])) =>
                IF verifyPassword(last'.args.password, users[i].passwordHash)
                THEN /\ last'.result.success
                     /\ users'[i].failedAttempts = 0
                ELSE /\ ~last'.result.success
                     /\ users'[i].failedAttempts = users[i].failedAttempts + 1
                     /\ users'[i].lockedUntil = Some(now + LOCK_DURATION)
                     /\ IsLocked(users[i])'
      ]_vars

\* Ann was locked by three wrong passwords, the 30 minutes have passed, and a
\* fourth wrong password has locked her account again
C23_Witness ==
    /\ last.op = "loginUser"
    /\ ~last.result.success
    /\ Len(users) = 1
    /\ users[1].failedAttempts = 4
    /\ now >= LOCK_DURATION
    /\ users[1].lockedUntil = Some(now + LOCK_DURATION)

\* C25: a login that locks an account, a login rejected as locked and a
\* resetPassword leave the session store as it was, and each stored session
\* that has not expired validates to its user and grants access to that
\* user's data, also while the user is locked and after the password was
\* replaced; a token stops validating only by expiry, logout or replacement.
C25_LockAndResetKeepSessions ==
    /\ [][(\/ last'.op = "resetPassword"
           \/ last'.op = "loginUser" /\ ~last'.result.success
           \/ \E i \in 1..Len(users) : ~IsLocked(users[i]) /\ IsLocked(users[i])')
          => /\ sessions' = sessions
             /\ \A token \in Tokens, studyId \in {"Ann", "Bob"} :
                   hasDataAccess(token, studyId)' = hasDataAccess(token, studyId)
      ]_vars
    /\ [](\A k \in 1..Len(sessions) :
             ~SessionExpired(sessions[k]) =>
                /\ validateSession(sessions[k].sessionToken) # Undefined
                /\ validateSession(sessions[k].sessionToken)[1].studyId = sessions[k].studyId
                /\ hasDataAccess(sessions[k].sessionToken, sessions[k].studyId))

\* Ann logged in, was then locked out by three wrong passwords, and her
\* earlier session token still grants access to her data
C25_Witness ==
    /\ Len(users) = 1
    /\ IsLocked(users[1])
    /\ last.op = "loginUser"
    /\ ~last.result.success
    /\ Len(sessions) = 1
    /\ hasDataAccess(sessions[1].sessionToken, "Ann")

\* C26: a user has at most one usable reset token: initiatePasswordReset for
\* a registered email replaces the stored token by a fresh one and the expiry
\* by now + 1 hour, also when a token was outstanding; resetPassword succeeds
\* only with the token stored at that moment, so an earlier token fails; and
\* a successful login leaves an outstanding token and its expiry in place.
C26_OneResetTokenPerUser ==
    [][\A i \in 1..Len(users) :
          /\ (last'.op = "initiatePasswordReset" /\ EmailIndex(last'.args.email) = i) =>
                /\ users'[i].resetToken = Some(uuidv4)
                /\ users'[i].resetToken # users[i].resetToken
                /\ users'[i].resetTokenExpiry = Some(now + RESET_TOKEN_DURATION)
          /\ (/\ last'.op = "resetPassword"
              /\ EmailIndex(last'.args.email) = i
              /\ last'.result.success) =>
                users[i].resetToken = Some(last'.args.resetToken)
          /\ (/\ last'.op = "loginUser"
              /\ LoginIndex(last'.args.studyIdOrEmail) = i
              /\ last'.result.success) =>
                /\ users'[i].resetToken = users[i].resetToken
                /\ users'[i].resetTokenExpiry = users[i].resetTokenExpiry
      ]_vars

\* Ann asked for a reset twice; resetPassword with the first token, which was
\* never used and is not an hour old, has just been refused
C26_Witness ==
    /\ last.op = "resetPassword"
    /\ ~last.result.success
    /\ last.result.error = "InvalidOrExpiredToken"
    /\ last.args.resetToken = 1
    /\ Len(users) = 1
    /\ users[1].resetToken = Some(2)
    /\ now <= users[1].resetTokenExpiry[1]
    /\ hist.consumed = {}
    /\ hist.issued = {}

---------------------------------------------------------------------------
(* Overlapping registrations (SpecAsync) *)

\* C27: also when registerUser calls overlap at the await of hashPassword, no
\* two stored records share an email or a studyId, a registerUser that
\* returns success has its record in the store, and no stored record
\* disappears from the store in any later step.
C27_OverlappingRegistrations ==
    /\ [](\A i, j \in 1..Len(users) :
             (users[i].email = users[j].email \/ users[i].studyId = users[j].studyId)
                => i = j)
    /\ [][/\ (last'.op = "registerUser" /\ last'.result.success) =>
                \E j \in 1..Len(users') : users'[j].studyId = last'.result.studyId
          /\ \A i \in 1..Len(users) :
                \E j \in 1..Len(users') :
                   /\ users'[j].studyId = users[i].studyId
                   /\ users'[j].email = users[i].email
      ]_vars

---------------------------------------------------------------------------
(* Identifiers at registration and at login (SpecIdentity) *)

\* Ann and Bob register with custom study ids: with capitals, with a
\* character validator.escape replaces, in the spelling of the other's id in
\* another letter case, and in the spelling of the other's email
IdentityInputs ==
    {[email |-> EmailA, password |-> Pw1, preferredName |-> "Ann", customStudyId |-> id] :
        id \in {"Ann", "a&b"}}
    \cup {[email |-> EmailB, password |-> Pw2, preferredName |-> "Bob", customStudyId |-> id] :
        id \in {"Bob", "ann", EmailA}}

\* Each registered user logs in with the own study id or the own email as
\* stored, with either password
NextIdentity ==
    \/ \E input \in IdentityInputs, salt \in Salts :
          RegisterUser(input.email, input.password, input.preferredName,
                       input.customStudyId, salt)
    \/ \E i \in 1..Len(users), password \in {Pw1, Pw2} :
          \E identifier \in {users[i].studyId, users[i].email} :
             LoginUser(identifier, password)

SpecIdentity == Init /\ [][NextIdentity]_vars

\* C24: when a registered user who is not locked calls loginUser with the own
\* studyId or the own email and the own password, the login succeeds for that
\* user's record and issues a session owned by that user, whatever other
\* records are stored.
C24_OwnIdentifierLogsIn ==
    [][\A i \in 1..Len(users) :
          (/\ last'.op = "loginUser"
           /\ last'.args.studyIdOrEmail \in {users[i].studyId, users[i].email}
           /\ verifyPassword(last'.args.password, users[i].passwordHash)
           /\ ~IsLocked(users[i])) =>
              /\ LoginIndex(last'.args.studyIdOrEmail) = i
              /\ last'.result.success
              /\ last'.result.user.studyId = users[i].studyId
              /\ \E k \in 1..Len(sessions') :
                    /\ sessions'[k].sessionToken = last'.result.sessionToken
                    /\ sessions'[k].studyId = users[i].studyId
      ]_vars

====
